---- MODULE Spec2Model ----
(***************************************************************************)
(* Intrusive binary search tree (TreeIn), its rotation primitives          *)
(* (BalTreeIn) and the AA-tree balancer (AATreeIn).                         *)
(*                                                                         *)
(* The heap is a record of the pointer fields of every node and of every   *)
(* root.  Each mutating member function is split at its lock boundaries:   *)
(* one action per locked section, sequenced by pc, so that every state of  *)
(* the model is a state another holder of a lock could observe.            *)
(***************************************************************************)
EXTENDS Integers, Sequences, FiniteSets

\* nodes constructed when one tree is exercised (Spec)
NumNodes == 5

\* nodes constructed when nodes move between two trees (SpecMove)
MoveNodes == 4

\* nodes of the insert-only tree (SpecGrow); from 6 nodes on a tree can be
\* taller than 2*log2(N+1)
GrowNodes == 7

\* nodes of the tree whose lock calls are followed (SpecProtocol)
ProtoNodes == 3

\* nodes of the insert-only tree with equal keys (SpecOrder)
OrderNodes == 4

\* nodes of the doubly linked and the sorted list scenarios
ListLen == 4

\* nodes of the singly linked list scenario (its broken lists are many)
SingleLen == 3

\* links of the many-to-many scenario
NumLinks == 2

None == 0

Max(a, b) == IF a > b THEN a ELSE b

MaxNodes == Max(GrowNodes, Max(NumNodes, MoveNodes))

Nodes == 1..MaxNodes

Roots == {1, 2}

Keys == 0..(NumNodes + 1)

Fuel == MaxNodes + 1

VARIABLES base, root, parent, left, right, level, key,
          roots, nodes,
          pc, self, dest, walk, rotPivot, locks,
          lastop, pre, ret, trail, flag,
          lst, mm, hist

vars == <<base, root, parent, left, right, level, key, roots, nodes,
          pc, self, dest, walk, rotPivot, locks, lastop, pre, ret, trail, flag,
          lst, mm, hist>>

Heap ==
  [base |-> base, root |-> root, parent |-> parent,
   left |-> left, right |-> right, level |-> level]

(***************************************************************************)
(* User supplied comparators (TreeIn.h): >0 if the second argument is      *)
(* greater than the first, <0 if it is less, 0 if equal.                   *)
(***************************************************************************)
Sign(x) == IF x > 0 THEN 1 ELSE IF x < 0 THEN -1 ELSE 0

compare(n1, n2) == Sign(key[n2] - key[n1])

compareKey(n, k) == Sign(k - key[n])

(***************************************************************************)
(* Read-only walks                                                         *)
(***************************************************************************)
RECURSIVE leftmost(_, _, _)
leftmost(h, n, f) ==
  IF f = 0 \/ h.left[n] = None THEN n ELSE leftmost(h, h.left[n], f - 1)

RECURSIVE rightmost(_, _, _)
rightmost(h, n, f) ==
  IF f = 0 \/ h.right[n] = None THEN n ELSE rightmost(h, h.right[n], f - 1)

\* ascend until a parent is reached through its left link
RECURSIVE ascendNext(_, _, _)
ascendNext(h, n, f) ==
  IF f = 0 \/ h.parent[n] = None THEN None
  ELSE IF h.left[h.parent[n]] = n THEN h.parent[n]
  ELSE ascendNext(h, h.parent[n], f - 1)

\* ascend until a parent is reached through its right link
RECURSIVE ascendPrev(_, _, _)
ascendPrev(h, n, f) ==
  IF f = 0 \/ h.parent[n] = None THEN None
  ELSE IF h.right[h.parent[n]] = n THEN h.parent[n]
  ELSE ascendPrev(h, h.parent[n], f - 1)

\* mutant: takes the right child itself instead of its leftmost descendant
next_noDescent(h, n) ==
  IF h.right[n] # None THEN h.right[n]
  ELSE ascendNext(h, n, Fuel)

next(h, n) ==
  IF h.right[n] # None THEN leftmost(h, h.right[n], Fuel)
  ELSE ascendNext(h, n, Fuel)

prev(h, n) ==
  IF h.left[n] # None THEN rightmost(h, h.left[n], Fuel)
  ELSE ascendPrev(h, n, Fuel)

\* mutant: starts the descent at the base's left child
first_belowBase(h, r) ==
  IF h.base[r] = None \/ h.left[h.base[r]] = None THEN None
  ELSE leftmost(h, h.left[h.base[r]], Fuel)

first(h, r) ==
  IF h.base[r] = None THEN None ELSE leftmost(h, h.base[r], Fuel)

last(h, r) ==
  IF h.base[r] = None THEN None ELSE rightmost(h, h.base[r], Fuel)

RECURSIVE findFrom(_, _, _, _)
findFrom(h, node, k, f) ==
  IF node = None \/ f = 0 THEN None
  ELSE LET cmp == compareKey(node, k)
       IN  IF cmp = 0 THEN node
           ELSE IF cmp < 0 THEN findFrom(h, h.left[node], k, f - 1)
           ELSE findFrom(h, h.right[node], k, f - 1)

\* mutant: descends right where the key is smaller and left where it is larger
RECURSIVE findFromSwapped(_, _, _, _)
findFromSwapped(h, node, k, f) ==
  IF node = None \/ f = 0 THEN None
  ELSE LET cmp == compareKey(node, k)
       IN  IF cmp = 0 THEN node
           ELSE IF cmp < 0 THEN findFromSwapped(h, h.right[node], k, f - 1)
           ELSE findFromSwapped(h, h.left[node], k, f - 1)

find_swapped(h, r, k) == findFromSwapped(h, h.base[r], k, Fuel)

find(h, r, k) == findFrom(h, h.base[r], k, Fuel)

\* findMinus: node is the candidate, cursor the position of the descent
RECURSIVE findMinusFrom(_, _, _, _, _)
findMinusFrom(h, node, cursor, k, f) ==
  IF cursor = None \/ f = 0 THEN node
  ELSE LET cmp == compareKey(cursor, k)
       IN  IF cmp = 0 THEN cursor
           ELSE IF cmp < 0 THEN findMinusFrom(h, cursor, h.left[cursor], k, f - 1)
           ELSE findMinusFrom(h, node, h.right[cursor], k, f - 1)

findMinus(h, r, k) == findMinusFrom(h, h.base[r], h.base[r], k, Fuel)

RECURSIVE findPlusFrom(_, _, _, _, _)
findPlusFrom(h, node, cursor, k, f) ==
  IF cursor = None \/ f = 0 THEN node
  ELSE LET cmp == compareKey(cursor, k)
       IN  IF cmp = 0 THEN cursor
           ELSE IF cmp < 0 THEN findPlusFrom(h, node, h.left[cursor], k, f - 1)
           ELSE findPlusFrom(h, cursor, h.right[cursor], k, f - 1)

findPlus(h, r, k) == findPlusFrom(h, h.base[r], h.base[r], k, Fuel)

(***************************************************************************)
(* TreeInRoot::add, the write-locked section: descend from the base and    *)
(* link node as a leaf; ties go right.                                     *)
(***************************************************************************)
\* mutant: inverted comparison in the descent
goesLeft_flipped(cmp) == cmp > 0

\* mutant: a node equal to the one it meets goes left
goesLeft_tiesLeft(cmp) == cmp <= 0

goesLeft(cmp) == cmp < 0

RECURSIVE descend(_, _, _, _)
descend(h, nodebase, node, f) ==
  LET cmp == compare(nodebase, node)
  IN  IF goesLeft(cmp)
      THEN IF h.left[nodebase] # None /\ f > 0
           THEN descend(h, h.left[nodebase], node, f - 1)
           ELSE [at |-> nodebase, side |-> "L"]
      ELSE IF h.right[nodebase] # None /\ f > 0
           THEN descend(h, h.right[nodebase], node, f - 1)
           ELSE [at |-> nodebase, side |-> "R"]

\* mutant: links below the base without descending
addLinks_atBase(h, r, node) ==
  LET h1 == IF h.base[r] # None
            THEN LET a == IF goesLeft(compare(h.base[r], node))
                          THEN [h EXCEPT !.left[h.base[r]] = node]
                          ELSE [h EXCEPT !.right[h.base[r]] = node]
                 IN  [a EXCEPT !.parent[node] = h.base[r]]
            ELSE LET a == [h EXCEPT !.base[r] = node]
                 IN  [a EXCEPT !.parent[node] = None]
      h2 == [h1 EXCEPT !.root[node] = r]
      h3 == [h2 EXCEPT !.left[node] = None]
  IN  [h3 EXCEPT !.right[node] = None]

\* hang the node below the node the descent ends at, or at the base
addLink(h, r, node) ==
  IF h.base[r] # None
  THEN LET d == descend(h, h.base[r], node, Fuel)
           a == IF d.side = "L"
                THEN [h EXCEPT !.left[d.at] = node]
                ELSE [h EXCEPT !.right[d.at] = node]
       IN  [a EXCEPT !.parent[node] = d.at]
  ELSE LET a == [h EXCEPT !.base[r] = node]
       IN  [a EXCEPT !.parent[node] = None]

\* setRoot and clear the node's children
addInit(h, r, node) ==
  LET h2 == [h EXCEPT !.root[node] = r]
      h3 == [h2 EXCEPT !.left[node] = None]
  IN  [h3 EXCEPT !.right[node] = None]

addLinks(h, r, node) == addInit(addLink(h, r, node), r, node)

(***************************************************************************)
(* TreeInNode::remove, the write-locked section: three-case deletion.      *)
(***************************************************************************)
\* mutant: with two children promotes the left child, not the predecessor
replacement_leftChild(h, n) ==
  IF h.left[n] = None THEN h.right[n] ELSE h.left[n]

\* which node takes the removed node's place (none, the sole child, or prev())
replacement(h, n) ==
  IF h.left[n] = None THEN h.right[n]
  ELSE IF h.right[n] = None THEN h.left[n]
  ELSE prev(h, n)

\* two children: the predecessor adopts our right subtree
spliceRight(h, n, newLink) ==
  LET a == [h EXCEPT !.right[newLink] = h.right[n]]
  IN  [a EXCEPT !.parent[a.right[n]] = newLink]

\* mutant: the predecessor's parent keeps the predecessor as right child
spliceLeft_parentKeeps(h, n, newLink) ==
  IF newLink # h.left[n]
  THEN LET c == [h EXCEPT !.left[newLink] = h.left[n]]
       IN  [c EXCEPT !.parent[c.left[n]] = newLink]
  ELSE h

\* two children, predecessor below our left child: unlink it from its parent,
\* leaving its left subtree in its stead, then it adopts our left subtree
spliceLeft(h, n, newLink) ==
  IF newLink # h.left[n]
  THEN LET a == [h EXCEPT !.right[h.parent[newLink]] = h.left[newLink]]
           b == IF a.left[newLink] # None
                THEN [a EXCEPT !.parent[a.left[newLink]] = a.parent[newLink]]
                ELSE a
           c == [b EXCEPT !.left[newLink] = b.left[n]]
       IN  [c EXCEPT !.parent[c.left[n]] = newLink]
  ELSE h

\* mutant: the replacement keeps its old parent pointer
reparent_skip(h, n, newLink) == h

\* link our replacement to our parent
reparent(h, n, newLink) ==
  IF newLink # None
  THEN [h EXCEPT !.parent[newLink] = h.parent[n]]
  ELSE h

\* mutant: the parent (or root) keeps pointing at the removed node
relinkParent_skip(h, n, myparent, newLink) == h

\* update our parent (or root) to point to our replacement
relinkParent(h, n, myparent, newLink) ==
  IF myparent # None
  THEN IF h.left[myparent] = n
       THEN [h EXCEPT !.left[myparent] = newLink]
       ELSE [h EXCEPT !.right[myparent] = newLink]
  ELSE [h EXCEPT !.base[h.root[n]] = newLink]

detach(h, n) ==
  LET a == [h EXCEPT !.root[n] = None]
      b == [a EXCEPT !.parent[n] = None]
      c == [b EXCEPT !.left[n] = None]
  IN  [c EXCEPT !.right[n] = None]

\* everything remove() does to the tree before it clears the node itself
removeRelink(h, n) ==
  LET myparent == h.parent[n]
      newLink == replacement(h, n)
      h1 == IF h.left[n] # None /\ h.right[n] # None
            THEN spliceLeft(spliceRight(h, n, newLink), n, newLink)
            ELSE h
      h2 == reparent(h1, n, newLink)
  IN  relinkParent(h2, n, myparent, newLink)

removeLinks(h, n) == detach(removeRelink(h, n), n)

(***************************************************************************)
(* BalTreeInNode::rotateLeft / rotateRight (one write-locked section).     *)
(***************************************************************************)
\* mutant: the middle subtree keeps the pivot as its parent
rotateLeftMove_noReparent(h, me, pivot) ==
  [h EXCEPT !.right[me] = h.left[pivot]]

\* Move middle node (B) from Pivot to Root
rotateLeftMove(h, me, pivot) ==
  LET h1 == [h EXCEPT !.right[me] = h.left[pivot]]
  IN  IF h1.right[me] # None
      THEN [h1 EXCEPT !.parent[h1.right[me]] = me]
      ELSE h1

\* mutant: the middle subtree keeps the pivot as its parent
rotateRightMove_noReparent(h, me, pivot) ==
  [h EXCEPT !.left[me] = h.right[pivot]]

rotateRightMove(h, me, pivot) ==
  LET h1 == [h EXCEPT !.left[me] = h.right[pivot]]
  IN  IF h1.left[me] # None
      THEN [h1 EXCEPT !.parent[h1.left[me]] = me]
      ELSE h1

\* Point Roots parent to Pivot (the same statements in both rotations)
rotateParent(h, me, pivot) ==
  LET h3 == [h EXCEPT !.parent[pivot] = h.parent[me]]
      pp == h3.parent[pivot]
  IN  IF pp # None
      THEN IF h3.left[pp] = me
           THEN [h3 EXCEPT !.left[pp] = pivot]
           ELSE [h3 EXCEPT !.right[pp] = pivot]
      ELSE [h3 EXCEPT !.base[h3.root[pivot]] = pivot]

\* mutant: the pivot does not take the rotated node as its child
rotateLeftConnect_noChild(h, me, pivot) ==
  [h EXCEPT !.parent[me] = pivot]

\* Connect Pivot to the (old) Root of the rotation
rotateLeftConnect(h, me, pivot) ==
  LET h5 == [h EXCEPT !.left[pivot] = me]
  IN  [h5 EXCEPT !.parent[me] = pivot]

rotateRightConnect(h, me, pivot) ==
  LET h5 == [h EXCEPT !.right[pivot] = me]
  IN  [h5 EXCEPT !.parent[me] = pivot]

rotateLeft(h, me) ==
  LET pivot == h.right[me]
  IN  rotateLeftConnect(rotateParent(rotateLeftMove(h, me, pivot), me, pivot), me, pivot)

rotateRight(h, me) ==
  LET pivot == h.left[me]
  IN  rotateRightConnect(rotateParent(rotateRightMove(h, me, pivot), me, pivot), me, pivot)

(***************************************************************************)
(* AATreeInNode::rebalance: entry, and one iteration of the walk.          *)
(***************************************************************************)
rebalanceEnter(h, me) ==
  IF h.root[me] = None THEN [h EXCEPT !.level[me] = 0] ELSE h

levelOf(h, n) == IF n = None THEN 0 ELSE h.level[n]

\* mutant: the level is only accepted when both children are level
rebalanceStep_noGrandchild(h, node) ==
  LET levelL == levelOf(h, h.left[node])
      levelR == levelOf(h, h.right[node])
  IN  IF levelL > levelR
      THEN [h |-> rotateRight(h, node), node |-> node]
      ELSE IF levelL = levelR
      THEN [h |-> [h EXCEPT !.level[node] = levelL + 1], node |-> h.parent[node]]
      ELSE [h |-> rotateLeft(h, node), node |-> node]

\* mutant: a node whose right side is too high is accepted as it is
rebalanceStep_noRotateLeft(h, node) ==
  LET levelL == levelOf(h, h.left[node])
      levelR == levelOf(h, h.right[node])
  IN  IF levelL > levelR
      THEN [h |-> rotateRight(h, node), node |-> node]
      ELSE [h |-> [h EXCEPT !.level[node] = levelL + 1], node |-> h.parent[node]]

\* mutant: a node whose left side is too high is accepted as it is
rebalanceChoice_noRotateRight(h, node) ==
  LET nodeR  == h.right[node]
      nodeG  == IF nodeR # None THEN h.right[nodeR] ELSE None
      levelL == levelOf(h, h.left[node])
  IN  IF levelL >= levelOf(h, nodeR) \/ levelL = levelOf(h, nodeG) THEN "level"
      ELSE "rotateLeft"

\* mutant: equal levels on both sides also rotate to the right
rebalanceChoice_rotatesOnTie(h, node) ==
  LET nodeR  == h.right[node]
      nodeG  == IF nodeR # None THEN h.right[nodeR] ELSE None
      levelL == levelOf(h, h.left[node])
  IN  IF levelL >= levelOf(h, nodeR) THEN "rotateRight"
      ELSE IF levelL = levelOf(h, nodeG) THEN "level"
      ELSE "rotateLeft"

\* which branch one iteration of the walk takes at node
rebalanceChoice(h, node) ==
  LET nodeL  == h.left[node]
      nodeR  == h.right[node]
      nodeG  == IF nodeR # None THEN h.right[nodeR] ELSE None
      levelL == levelOf(h, nodeL)
      levelR == levelOf(h, nodeR)
      levelG == levelOf(h, nodeG)
  IN  IF levelL > levelR THEN "rotateRight"
      ELSE IF levelL = levelR \/ levelL = levelG THEN "level"
      ELSE "rotateLeft"

\* mutant: after a rotation the loop variable follows the returned pivot
rebalanceStep_followsPivot(h, node) ==
  LET choice == rebalanceChoice(h, node)
  IN  IF choice = "rotateRight"
      THEN [h |-> rotateRight(h, node), node |-> h.left[node]]
      ELSE IF choice = "level"
      THEN [h |-> [h EXCEPT !.level[node] = levelOf(h, h.left[node]) + 1],
            node |-> h.parent[node]]
      ELSE [h |-> rotateLeft(h, node), node |-> h.right[node]]

rebalanceStep(h, node) ==
  LET choice == rebalanceChoice(h, node)
  IN  IF choice = "rotateRight"
      THEN [h |-> rotateRight(h, node), node |-> node]
      ELSE IF choice = "level"
      THEN [h |-> [h EXCEPT !.level[node] = levelOf(h, h.left[node]) + 1],
            node |-> h.parent[node]]
      ELSE [h |-> rotateLeft(h, node), node |-> node]

(***************************************************************************)
(* TreeInRoot::~TreeInRoot: unlink every node without rebalancing.  The    *)
(* result carries the loop variable, none once the loop has ended.         *)
(***************************************************************************)
SweepFuel == 2 * MaxNodes + 1

RECURSIVE sweep(_, _, _)
sweep(h, node, f) ==
  IF node = None \/ f = 0 THEN [h |-> h, node |-> node]
  ELSE IF h.left[node] # None THEN sweep(h, h.left[node], f - 1)
  ELSE IF h.right[node] # None THEN sweep(h, h.right[node], f - 1)
  ELSE LET myparent == h.parent[node]
           a == [h EXCEPT !.left[node] = None]
           b == [a EXCEPT !.right[node] = None]
           c == [b EXCEPT !.parent[node] = None]
           d == IF myparent # None /\ c.left[myparent] = node
                THEN [c EXCEPT !.left[myparent] = None]
                ELSE c
           e == IF myparent # None /\ d.right[myparent] = node
                THEN [d EXCEPT !.right[myparent] = None]
                ELSE d
       IN  sweep(e, myparent, f - 1)

destroyRoot(h, r) ==
  LET s == sweep(h, h.base[r], SweepFuel)
  IN  [h |-> [s.h EXCEPT !.base[r] = None], node |-> s.node]

(***************************************************************************)
(* check() with TREEIN_CHECK compiled in and TREEIN_ASSERT returning false *)
(***************************************************************************)
BalTreeInNode_check(h, me) ==
  IF h.root[me] # None
  THEN /\ IF h.parent[me] = None
          THEN h.base[h.root[me]] = me
          ELSE /\ h.left[h.parent[me]] = me \/ h.right[h.parent[me]] = me
               /\ h.root[h.parent[me]] = h.root[me]
       /\ h.left[me] # None =>
            /\ h.parent[h.left[me]] = me
            /\ compare(me, h.left[me]) <= 0
            /\ compare(h.left[me], me) >= 0
       /\ h.right[me] # None =>
            /\ h.parent[h.right[me]] = me
            /\ compare(me, h.right[me]) >= 0
            /\ compare(h.right[me], me) <= 0
  ELSE h.parent[me] = None /\ h.left[me] = None /\ h.right[me] = None

AATreeInNode_check(h, me) ==
  LET chkflag == BalTreeInNode_check(h, me)
      free == IF h.root[me] # None THEN h.level[me] = 1 ELSE h.level[me] = 0
      l == h.left[me]
      r == h.right[me]
  IN  IF ~ (IF l # None THEN h.level[me] = h.level[l] + 1 ELSE free) THEN FALSE
      ELSE IF r # None
      THEN IF ~ (h.level[me] = h.level[r] \/ h.level[me] = h.level[r] + 1) THEN FALSE
           ELSE IF h.right[r] # None /\ ~ (h.level[me] > h.level[h.right[r]]) THEN FALSE
           ELSE chkflag
      ELSE IF ~ free THEN FALSE
      ELSE chkflag

\* the base node's own check() is called and its result dropped
BalTreeInRoot_check(h, me) ==
  IF h.base[me] # None
  THEN LET node == h.base[me]
       IN  IF h.root[node] # me THEN FALSE
           ELSE IF h.parent[node] # None THEN FALSE
           ELSE LET dropped == AATreeInNode_check(h, node)
                IN  TRUE
  ELSE TRUE

(***************************************************************************)
(* TreeInNode::check and the walk of TreeInRoot::check (the unbalanced     *)
(* tree), with TREEIN_ASSERT returning false                               *)
(***************************************************************************)
TreeInNode_check(h, me) ==
  IF h.root[me] # None
  THEN /\ IF h.parent[me] = None
          THEN h.base[h.root[me]] = me
          ELSE /\ h.left[h.parent[me]] = me \/ h.right[h.parent[me]] = me
               /\ h.root[h.parent[me]] = h.root[me]
       /\ h.left[me] # None =>
            /\ h.parent[h.left[me]] = me
            /\ compare(me, h.left[me]) <= 0
            /\ compare(h.left[me], me) >= 0
            /\ LET most == rightmost(h, h.left[me], Fuel)
               IN  h.right[h.left[me]] # None =>
                     compare(me, most) <= 0 /\ compare(most, me) >= 0
       /\ h.right[me] # None =>
            /\ h.parent[h.right[me]] = me
            /\ compare(me, h.right[me]) >= 0
            /\ compare(h.right[me], me) <= 0
            /\ LET most == leftmost(h, h.right[me], Fuel)
               IN  h.left[h.right[me]] # None =>
                     compare(me, most) >= 0 /\ compare(most, me) <= 0
  ELSE h.parent[me] = None /\ h.left[me] = None /\ h.right[me] = None

\* from a leaf: up to the first parent entered from its left that has a
\* right child, then to that child; without one the loop ends at the base
RECURSIVE checkAscend(_, _, _)
checkAscend(h, node, f) ==
  IF f = 0 \/ h.parent[node] = None THEN node
  ELSE LET p == h.parent[node]
       IN  IF h.left[p] = node /\ h.right[p] # None THEN h.right[p]
           ELSE checkAscend(h, p, f - 1)

\* the node the walk of TreeInRoot::check goes to after node has passed
checkAdvance(h, node) ==
  IF h.left[node] # None THEN h.left[node]
  ELSE IF h.right[node] # None THEN h.right[node]
  ELSE checkAscend(h, node, Fuel)

(***************************************************************************)
(* Observation helpers (not program code): in-order sequence and members   *)
(* by reachability from a root's base.                                     *)
(***************************************************************************)
RECURSIVE inorderFrom(_, _, _)
inorderFrom(h, n, f) ==
  IF n = None \/ f = 0 THEN <<>>
  ELSE inorderFrom(h, h.left[n], f - 1) \o <<n>> \o inorderFrom(h, h.right[n], f - 1)

inorder(h, r) == inorderFrom(h, h.base[r], Fuel)

Range(s) == {s[i] : i \in DOMAIN s}

members(h, r) == Range(inorder(h, r))

Snapshot == [r \in Roots |-> inorder(Heap, r)]

(***************************************************************************)
(* Linked lists (ListIn, DListIn, SortListIn, SortDListIn).  A list heap l *)
(* holds the roots' m_first and m_last and the nodes' m_root, m_next and   *)
(* m_prev (m_prev stays unused in a singly linked list).                   *)
(***************************************************************************)
Lists == {1, 2}

Items == 1..ListLen

\* a pointer value that is no node: what an uninitialised m_last may hold
Wild == MaxNodes + 1

NoList ==
  [first |-> [r \in Lists |-> None], last |-> [r \in Lists |-> None],
   root |-> [n \in Items |-> None], next |-> [n \in Items |-> None],
   prev |-> [n \in Items |-> None]]

\* ListInNode::remove, the walk to the node whose m_next is n
RECURSIVE before(_, _, _, _)
before(l, node, n, f) ==
  IF node = None \/ f = 0 THEN None
  ELSE IF l.next[node] = n THEN node
  ELSE before(l, l.next[node], n, f - 1)

\* ListInNode::remove
ListInNode_remove(l, n) ==
  IF l.root[n] = None THEN l
  ELSE LET mylist == l.root[n]
       IN  IF l.first[mylist] = n
           THEN [l EXCEPT !.first[mylist] = l.next[n],
                          !.last[mylist] = IF @ = n THEN None ELSE @,
                          !.next[n] = None,
                          !.root[n] = None]
           ELSE LET node == before(l, l.first[mylist], n, ListLen + 1)
                IN  IF node = None THEN l
                    ELSE [l EXCEPT !.next[node] = l.next[n],
                                   !.last[mylist] = IF l.next[n] = None THEN node ELSE @,
                                   !.next[n] = None,
                                   !.root[n] = None]

\* ListInRoot::remove(N&)
ListInRoot_remove(l, r, n) ==
  IF l.root[n] = r THEN ListInNode_remove(l, n) ELSE l

\* ListInRoot::addFirst (m_last is not assigned)
ListInRoot_addFirst(l, r, n) ==
  LET l1 == IF l.root[n] # None THEN ListInNode_remove(l, n) ELSE l
  IN  [l1 EXCEPT !.root[n] = r, !.next[n] = l1.first[r], !.first[r] = n]

\* ListInRoot::addLast; a store through a wild m_last lands outside the list
ListInRoot_addLast(l, r, n) ==
  LET l1 == IF l.root[n] # None THEN ListInNode_remove(l, n) ELSE l
      l2 == IF l1.last[r] = None THEN [l1 EXCEPT !.first[r] = n]
            ELSE IF l1.last[r] = Wild THEN l1
            ELSE [l1 EXCEPT !.next[l1.last[r]] = n]
  IN  [l2 EXCEPT !.last[r] = n, !.root[n] = r, !.next[n] = None]

\* ListInNode::addAfter: me adds itself after node (m_last is not assigned)
ListInNode_addAfter(l, me, node) ==
  IF l.root[node] # None /\ node # me
  THEN LET l1 == ListInNode_remove(l, me)
       IN  [l1 EXCEPT !.root[me] = l1.root[node],
                      !.next[me] = l1.next[node],
                      !.next[node] = me]
  ELSE l

\* DListInNode::remove
DListInNode_remove(l, n) ==
  IF l.root[n] = None THEN l
  ELSE LET r == l.root[n]
           l1 == IF l.next[n] # None
                 THEN [l EXCEPT !.prev[l.next[n]] = l.prev[n]]
                 ELSE [l EXCEPT !.last[r] = l.prev[n]]
           l2 == IF l.prev[n] # None
                 THEN [l1 EXCEPT !.next[l.prev[n]] = l.next[n]]
                 ELSE [l1 EXCEPT !.first[r] = l.next[n]]
       IN  [l2 EXCEPT !.next[n] = None, !.prev[n] = None, !.root[n] = None]

\* DListInRoot::remove(N&)
DListInRoot_remove(l, r, n) ==
  IF l.root[n] = r THEN DListInNode_remove(l, n) ELSE l

\* DListInRoot::addFirst
DListInRoot_addFirst(l, r, n) ==
  LET l1 == IF l.root[n] # None THEN DListInNode_remove(l, n) ELSE l
      l2 == [l1 EXCEPT !.root[n] = r]
      l3 == IF l2.first[r] = None
            THEN [l2 EXCEPT !.last[r] = n]
            ELSE [l2 EXCEPT !.prev[l2.first[r]] = n]
  IN  [l3 EXCEPT !.next[n] = l3.first[r], !.prev[n] = None, !.first[r] = n]

\* DListInRoot::addLast
DListInRoot_addLast(l, r, n) ==
  LET l1 == IF l.root[n] # None THEN DListInNode_remove(l, n) ELSE l
      l2 == IF l1.last[r] = None
            THEN [l1 EXCEPT !.first[r] = n, !.prev[n] = None]
            ELSE [l1 EXCEPT !.prev[n] = l1.last[r], !.next[l1.last[r]] = n]
  IN  [l2 EXCEPT !.last[r] = n, !.next[n] = None, !.root[n] = r]

\* mutant: the node that follows keeps its old m_prev
DListInNode_addAfter_noBackLink(l, me, node) ==
  IF l.root[node] # None /\ node # me
  THEN LET l1 == DListInNode_remove(l, me)
           l2 == [l1 EXCEPT !.root[me] = l1.root[node],
                            !.next[me] = l1.next[node],
                            !.prev[me] = node,
                            !.next[node] = me]
       IN  IF l2.next[me] # None
           THEN l2
           ELSE [l2 EXCEPT !.last[l2.root[me]] = me]
  ELSE l

\* DListInNode::addAfter: me adds itself after node
DListInNode_addAfter(l, me, node) ==
  IF l.root[node] # None /\ node # me
  THEN LET l1 == DListInNode_remove(l, me)
           l2 == [l1 EXCEPT !.root[me] = l1.root[node],
                            !.next[me] = l1.next[node],
                            !.prev[me] = node,
                            !.next[node] = me]
       IN  IF l2.next[me] # None
           THEN [l2 EXCEPT !.prev[l2.next[me]] = me]
           ELSE [l2 EXCEPT !.last[l2.root[me]] = me]
  ELSE l

(***************************************************************************)
(* SortListInRoot::add and SortDListInRoot::add: walk past every member    *)
(* with compare(member, node) >= 0, then call addAfter ON the last such    *)
(* member WITH the new node as its argument, or addFirst if there is none. *)
(***************************************************************************)
\* the user's sort order (SortListIn.h, SortDListIn.h): here by key, first
\* argument before second when the result is >= 0
sortCompare(node1, node2) == Sign(key[node2] - key[node1])

RECURSIVE sortWalk(_, _, _, _, _)
sortWalk(l, node1, node2, node, f) ==
  IF node2 # None /\ f > 0 /\ sortCompare(node2, node) >= 0
  THEN sortWalk(l, node2, l.next[node2], node, f - 1)
  ELSE node1

SortListInRoot_add(l, r, node) ==
  LET l1 == IF l.root[node] # None THEN ListInNode_remove(l, node) ELSE l
      node1 == sortWalk(l1, None, l1.first[r], node, ListLen + 1)
  IN  IF node1 # None
      THEN ListInNode_addAfter(l1, node1, node)
      ELSE ListInRoot_addFirst(l1, r, node)

SortDListInRoot_add(l, r, node) ==
  LET l1 == IF l.root[node] # None THEN DListInNode_remove(l, node) ELSE l
      node1 == sortWalk(l1, None, l1.first[r], node, ListLen + 1)
  IN  IF node1 # None
      THEN DListInNode_addAfter(l1, node1, node)
      ELSE DListInRoot_addFirst(l1, r, node)

(***************************************************************************)
(* ManyMany: every link is a DListInNode of its root's list (heap m.R) and *)
(* a DListInNode of its node's list (heap m.N).                            *)
(***************************************************************************)
MRoots == {1, 2}

MNodes == {1, 2}

Links == 1..NumLinks

NoLinks ==
  [R |-> [first |-> [r \in MRoots |-> None], last |-> [r \in MRoots |-> None],
          root |-> [k \in Links |-> None], next |-> [k \in Links |-> None],
          prev |-> [k \in Links |-> None]],
   N |-> [first |-> [n \in MNodes |-> None], last |-> [n \in MNodes |-> None],
          root |-> [k \in Links |-> None], next |-> [k \in Links |-> None],
          prev |-> [k \in Links |-> None]]]

\* ManyManyLink::remove (for a link the caller owns: m_dynamic is false)
ManyManyLink_remove(m, link) ==
  [R |-> DListInNode_remove(m.R, link), N |-> DListInNode_remove(m.N, link)]

\* ManyManyLink::add(root, node, link1): addAfter is called ON rlink / nlink
ManyManyLink_add(m, me, r, n, link) ==
  LET link1 == IF link = me THEN None ELSE link
      m1 == IF m.R.root[me] # None THEN ManyManyLink_remove(m, me) ELSE m
      rlink == IF link1 # None /\ m1.R.root[link1] = r THEN link1 ELSE None
      nlink == IF link1 # None /\ m1.N.root[link1] = n THEN link1 ELSE None
  IN  [R |-> IF rlink # None
             THEN DListInNode_addAfter(m1.R, rlink, me)
             ELSE DListInRoot_addLast(m1.R, r, me),
       N |-> IF nlink # None
             THEN DListInNode_addAfter(m1.N, nlink, me)
             ELSE DListInRoot_addLast(m1.N, n, me)]

\* ManyManyRoot::add(N&, L&) and ManyManyNode::add(R&, L&)
ManyMany_add(m, r, n, link) == ManyManyLink_add(m, link, r, n, None)

\* ManyManyRoot::addFirst(N&, L&) and ManyManyNode::addFirst(R&, L&)
ManyMany_addFirst(m, r, n, link) == ManyManyLink_add(m, link, r, n, None)

\* ManyManyRoot::addLast(N&, L&)
ManyManyRoot_addLast(m, r, n, link) == ManyManyLink_add(m, link, r, n, m.R.last[r])

\* ManyManyNode::addLast(R&, L&)
ManyManyNode_addLast(m, n, r, link) == ManyManyLink_add(m, link, r, n, m.N.last[n])

\* ManyManyRoot::remove(N&), the search: from the root's first link along nextNode
RECURSIVE rootSearch(_, _, _, _)
rootSearch(m, link, n, f) ==
  IF link = None \/ f = 0 THEN None
  ELSE IF m.N.root[link] = n THEN link
  ELSE rootSearch(m, m.N.next[link], n, f - 1)

\* ManyManyRoot::remove(N&): the new links and the returned flag
ManyManyRoot_remove(m, r, n) ==
  LET link == rootSearch(m, m.R.first[r], n, NumLinks + 1)
  IN  IF link # None
      THEN [m |-> ManyManyLink_remove(m, link), found |-> TRUE]
      ELSE [m |-> m, found |-> FALSE]

\* ManyManyNode::remove(R&): the loop never advances, so it returns only
\* when the node has no link or its first link is the one to root
ManyManyNode_remove(m, n, r) ==
  LET link == m.N.first[n]
  IN  IF link = None THEN [m |-> m, found |-> FALSE, hangs |-> FALSE]
      ELSE IF m.R.root[link] = r
      THEN [m |-> ManyManyLink_remove(m, link), found |-> TRUE, hangs |-> FALSE]
      ELSE [m |-> m, found |-> FALSE, hangs |-> TRUE]

(***************************************************************************)
(* State machine                                                           *)
(***************************************************************************)
NoCall == [op |-> "none", node |-> None, tree |-> None, k |-> 0]

\* every container empty and every node detached; keys are chosen by the caller
Blank ==
  /\ base = [r \in Roots |-> None]
  /\ root = [n \in Nodes |-> None]
  /\ parent = [n \in Nodes |-> None]
  /\ left = [n \in Nodes |-> None]
  /\ right = [n \in Nodes |-> None]
  /\ level = [n \in Nodes |-> 0]
  /\ pc = "idle" /\ self = None /\ dest = None /\ walk = None
  /\ lastop = NoCall
  /\ pre = [r \in Roots |-> <<>>]
  /\ ret = None
  /\ trail = <<>>
  /\ flag = TRUE
  /\ rotPivot = None /\ locks = <<>>
  /\ mm = NoLinks /\ hist = <<>>

\* distinct keys: node n has key n
Fresh == Blank /\ key = [n \in Nodes |-> n] /\ lst = NoList

\* one tree, NumNodes nodes
Init == Fresh /\ roots = {1} /\ nodes = 1..NumNodes

\* two trees, MoveNodes nodes
InitMove == Fresh /\ roots = Roots /\ nodes = 1..MoveNodes

SetHeap(h) ==
  /\ base' = h.base /\ root' = h.root /\ parent' = h.parent
  /\ left' = h.left /\ right' = h.right /\ level' = h.level

HeapUnchanged == UNCHANGED <<base, root, parent, left, right, level>>

\* a call from the application: only between operations
Record(op, n, r, k) ==
  /\ pc = "idle"
  /\ lastop' = [op |-> op, node |-> n, tree |-> r, k |-> k]
  /\ pre' = Snapshot

Call(op, n, r, k) ==
  /\ Record(op, n, r, k)
  /\ UNCHANGED <<lst, mm, hist, key, roots, nodes, rotPivot, locks>>

Mutator == ret' = None /\ trail' = <<>> /\ flag' = TRUE

\* mutant: a node already on this tree is removed and added again
AddCall_readd(r, n) ==
  /\ Call("add", n, r, 0) /\ Mutator
  /\ HeapUnchanged /\ UNCHANGED walk
  /\ self' = n /\ dest' = r
  /\ pc' = IF root[n] # None THEN "remove" ELSE "insert"

\* TreeInRoot::add, up to the first lock
AddCall(r, n) ==
  /\ Call("add", n, r, 0) /\ Mutator
  /\ HeapUnchanged /\ UNCHANGED walk
  /\ IF root[n] = r
     THEN UNCHANGED <<pc, self, dest>>
     ELSE /\ self' = n /\ dest' = r
          /\ pc' = IF root[n] # None THEN "remove" ELSE "insert"

\* mutant: removes the node from whatever tree it is on
RootRemoveCall_anyTree(r, n) ==
  /\ Call("remove", n, r, 0) /\ Mutator
  /\ HeapUnchanged /\ UNCHANGED <<walk, dest>>
  /\ IF root[n] # None
     THEN self' = n /\ pc' = "remove"
     ELSE UNCHANGED <<pc, self>>

\* TreeInRoot::remove(N&)
RootRemoveCall(r, n) ==
  /\ Call("remove", n, r, 0) /\ Mutator
  /\ HeapUnchanged /\ UNCHANGED <<walk, dest>>
  /\ IF root[n] = r
     THEN self' = n /\ pc' = "remove"
     ELSE UNCHANGED <<pc, self>>

\* TreeInNode::remove called directly
NodeRemoveCall(n) ==
  /\ Call("nremove", n, None, 0) /\ Mutator
  /\ HeapUnchanged /\ UNCHANGED <<walk, dest>>
  /\ IF root[n] # None
     THEN self' = n /\ pc' = "remove"
     ELSE UNCHANGED <<pc, self>>

\* TreeInNode::remove, write-locked section
Unlink ==
  /\ pc = "remove"
  /\ SetHeap(removeLinks(Heap, self))
  /\ pc' = "rebalEnter"
  /\ UNCHANGED <<lst, mm, hist, key, roots, nodes, rotPivot, locks, flag, self, dest, walk, lastop, pre, ret, trail>>

\* TreeInRoot::add, write-locked section
Insert ==
  /\ pc = "insert"
  /\ SetHeap(addLinks(Heap, dest, self))
  /\ pc' = "rebalEnter"
  /\ UNCHANGED <<lst, mm, hist, key, roots, nodes, rotPivot, locks, flag, self, dest, walk, lastop, pre, ret, trail>>

RebalanceEnter ==
  /\ pc = "rebalEnter"
  /\ SetHeap(rebalanceEnter(Heap, self))
  /\ walk' = self
  /\ pc' = "rebalance"
  /\ UNCHANGED <<lst, mm, hist, key, roots, nodes, rotPivot, locks, flag, self, dest, lastop, pre, ret, trail>>

\* the pivot of the rotation that an iteration at node calls, if it calls one
rotationPivot(h, node) ==
  CASE rebalanceChoice(h, node) = "rotateRight" -> h.left[node]
    [] rebalanceChoice(h, node) = "rotateLeft" -> h.right[node]
    [] OTHER -> None

RebalanceStep ==
  /\ pc = "rebalance" /\ walk # None
  /\ LET s == rebalanceStep(Heap, walk)
     IN  SetHeap(s.h) /\ walk' = s.node
  /\ rotPivot' = rotationPivot(Heap, walk)
  /\ UNCHANGED <<lst, mm, hist, key, roots, nodes, locks, flag, pc, self, dest, lastop, pre, ret, trail>>

\* the walk has left the tree: return to remove()'s caller
RebalanceExit ==
  /\ pc = "rebalance" /\ walk = None
  /\ IF dest # None /\ root[self] = None
     THEN pc' = "insert" /\ UNCHANGED <<self, dest>>
     ELSE pc' = "idle" /\ self' = None /\ dest' = None
  /\ HeapUnchanged
  /\ UNCHANGED <<lst, mm, hist, key, roots, nodes, rotPivot, locks, flag, walk, lastop, pre, ret, trail>>

Query(op, n, r, k, result) ==
  /\ Call(op, n, r, k)
  /\ ret' = result /\ flag' = TRUE
  /\ HeapUnchanged /\ UNCHANGED <<pc, self, dest, walk>>

FindCall(r, k) == Query("find", None, r, k, find(Heap, r, k)) /\ trail' = <<>>

FindMinusCall(r, k) == Query("findMinus", None, r, k, findMinus(Heap, r, k)) /\ trail' = <<>>

FindPlusCall(r, k) == Query("findPlus", None, r, k, findPlus(Heap, r, k)) /\ trail' = <<>>

Visit(n) == IF n = None THEN trail' = trail ELSE trail' = Append(trail, n)

FirstCall(r) ==
  /\ Query("first", None, r, 0, first(Heap, r))
  /\ trail' = IF first(Heap, r) = None THEN <<>> ELSE <<first(Heap, r)>>

LastCall(r) ==
  /\ Query("last", None, r, 0, last(Heap, r))
  /\ trail' = IF last(Heap, r) = None THEN <<>> ELSE <<last(Heap, r)>>

\* the caller's traversal loop: next() on the node last returned
NextCall ==
  /\ lastop.op \in {"first", "next"} /\ ret # None /\ Len(trail) < Fuel
  /\ Query("next", ret, lastop.tree, 0, next(Heap, ret))
  /\ Visit(next(Heap, ret))

PrevCall ==
  /\ lastop.op \in {"last", "prev"} /\ ret # None /\ Len(trail) < Fuel
  /\ Query("prev", ret, lastop.tree, 0, prev(Heap, ret))
  /\ Visit(prev(Heap, ret))

\* check() on a tree root
CheckCall(r) ==
  /\ Call("check", None, r, 0)
  /\ flag' = BalTreeInRoot_check(Heap, r)
  /\ ret' = None /\ trail' = <<>>
  /\ HeapUnchanged /\ UNCHANGED <<pc, self, dest, walk>>

\* ~TreeInRoot: runs to its end without taking a lock; the root is gone after
Destroy(r) ==
  /\ Record("destroy", None, r, 0) /\ Mutator
  /\ LET s == destroyRoot(Heap, r)
     IN  SetHeap(s.h) /\ walk' = s.node
  /\ roots' = roots \ {r}
  /\ UNCHANGED <<lst, mm, hist, key, nodes, pc, self, dest, rotPivot, locks>>

Mutate ==
  \/ \E r \in roots, n \in nodes : AddCall(r, n)
  \/ \E r \in roots, n \in nodes : RootRemoveCall(r, n)
  \/ \E n \in nodes : NodeRemoveCall(n)
  \/ Unlink
  \/ Insert
  \/ RebalanceEnter
  \/ RebalanceStep
  \/ RebalanceExit

Observe ==
  \/ \E r \in roots, k \in Keys : FindCall(r, k)
  \/ \E r \in roots, k \in Keys : FindMinusCall(r, k)
  \/ \E r \in roots, k \in Keys : FindPlusCall(r, k)
  \/ \E r \in roots : FirstCall(r)
  \/ \E r \in roots : LastCall(r)
  \/ NextCall
  \/ PrevCall
  \/ \E r \in roots : CheckCall(r)

Next == Mutate \/ Observe

Spec == Init /\ [][Next]_vars

\* one tree that only grows: GrowNodes nodes, inserted in any order
InitGrow == Fresh /\ roots = {1} /\ nodes = 1..GrowNodes

NextGrow ==
  \/ \E r \in roots, n \in nodes : AddCall(r, n)
  \/ Insert
  \/ RebalanceEnter
  \/ RebalanceStep
  \/ RebalanceExit

SpecGrow == InitGrow /\ [][NextGrow]_vars

\* one tree that only grows, with equal keys: hist is the order of the adds
OrderKeys == 1..2

InitOrder ==
  /\ Blank /\ lst = NoList /\ roots = {1} /\ nodes = 1..OrderNodes
  /\ \E f \in [1..OrderNodes -> OrderKeys] :
       key = [n \in Nodes |-> IF n \in 1..OrderNodes THEN f[n] ELSE 0]

\* TreeInRoot::add up to the first lock, the added node noted in hist
OrderedAdd(r, n) ==
  /\ Record("add", n, r, 0) /\ Mutator
  /\ UNCHANGED <<lst, mm, key, roots, nodes, rotPivot, locks>>
  /\ HeapUnchanged /\ UNCHANGED walk
  /\ IF root[n] = r
     THEN UNCHANGED <<pc, self, dest, hist>>
     ELSE /\ self' = n /\ dest' = r
          /\ pc' = IF root[n] # None THEN "remove" ELSE "insert"
          /\ hist' = Append(hist, n)

NextOrder ==
  \/ \E r \in roots, n \in nodes : OrderedAdd(r, n)
  \/ Insert
  \/ RebalanceEnter
  \/ RebalanceStep
  \/ RebalanceExit

SpecOrder == InitOrder /\ [][NextOrder]_vars

(***************************************************************************)
(* The same operations with their write locks (thread-safe policies): one  *)
(* step per lock call and per group of pointer assignments between them.   *)
(* locks is the stack of locks held by the running operation, each with    *)
(* the container it is on and how it was taken: "read" by readLock(false), *)
(* "upread" by readLock(true), "write" by writeLock(false), "upgrade" by   *)
(* writeLock(true).  A node's lock is the lock of the container it is on.  *)
(***************************************************************************)
Push(r, how) == locks' = Append(locks, [on |-> r, how |-> how])

PopN(k) == locks' = SubSeq(locks, 1, Len(locks) - k)

Pop == PopN(1)

Locked(r) ==
  \E i \in DOMAIN locks : locks[i].on = r /\ locks[i].how \in {"write", "upgrade"}

LockStep(heap) ==
  /\ SetHeap(heap)
  /\ UNCHANGED <<lst, mm, hist, key, roots, nodes, self, dest, walk, rotPivot, locks,
                 lastop, pre, ret, trail, flag>>

\* TreeInRoot::remove(N&): holds the tree's write lock over node.remove()
LockedRootRemoveCall(r, n) ==
  /\ Record("remove", n, r, 0) /\ Mutator
  /\ HeapUnchanged /\ UNCHANGED <<lst, mm, hist, key, roots, nodes, walk, dest, rotPivot>>
  /\ IF root[n] = r
     THEN self' = n /\ pc' = "remove" /\ Push(r, "write")
     ELSE UNCHANGED <<pc, self, locks>>

\* TreeInNode::remove: writeLock(false)
RemoveLock ==
  /\ pc = "remove"
  /\ Push(root[self], "write")
  /\ pc' = IF left[self] # None /\ right[self] # None
           THEN "removePrev" ELSE "removeRelink"
  /\ HeapUnchanged
  /\ UNCHANGED <<lst, mm, hist, key, roots, nodes, self, dest, walk, rotPivot, lastop, pre, ret, trail, flag>>

\* a node with both children calls prev() for its replacement: prev() takes
\* readLock(false) on the node's container
RemovePrevLock ==
  /\ pc = "removePrev"
  /\ Push(root[self], "read")
  /\ pc' = "removePrevUnlock"
  /\ HeapUnchanged
  /\ UNCHANGED <<lst, mm, hist, key, roots, nodes, self, dest, walk, rotPivot, lastop, pre, ret, trail, flag>>

\* prev(): readUnlock(save) and return
RemovePrevUnlock ==
  /\ pc = "removePrevUnlock"
  /\ Pop
  /\ pc' = "removeRelink"
  /\ HeapUnchanged
  /\ UNCHANGED <<lst, mm, hist, key, roots, nodes, self, dest, walk, rotPivot, lastop, pre, ret, trail, flag>>

\* mutant: the write lock is given back before the node is cleared
RemoveRelink_unlocks ==
  /\ pc = "removeRelink"
  /\ SetHeap(removeRelink(Heap, self))
  /\ Pop
  /\ pc' = "removeDetach"
  /\ UNCHANGED <<lst, mm, hist, key, roots, nodes, self, dest, walk, rotPivot, lastop, pre, ret, trail, flag>>

RemoveRelink ==
  /\ pc = "removeRelink"
  /\ LockStep(removeRelink(Heap, self))
  /\ pc' = "removeDetach"

RemoveDetach ==
  /\ pc = "removeDetach"
  /\ LockStep(detach(Heap, self))
  /\ pc' = "removeUnlock"

\* root->writeUnlock(save)
RemoveUnlock ==
  /\ pc = "removeUnlock"
  /\ Pop
  /\ pc' = "rebalEnter"
  /\ HeapUnchanged
  /\ UNCHANGED <<lst, mm, hist, key, roots, nodes, self, dest, walk, rotPivot, lastop, pre, ret, trail, flag>>

\* TreeInRoot::add: writeLock(false)
InsertLock ==
  /\ pc = "insert"
  /\ Push(dest, "write")
  /\ pc' = "insertLink"
  /\ HeapUnchanged
  /\ UNCHANGED <<lst, mm, hist, key, roots, nodes, self, dest, walk, rotPivot, lastop, pre, ret, trail, flag>>

InsertLink ==
  /\ pc = "insertLink"
  /\ LockStep(addLink(Heap, dest, self))
  /\ pc' = "insertInit"

InsertInit ==
  /\ pc = "insertInit"
  /\ LockStep(addInit(Heap, dest, self))
  /\ pc' = "insertUnlock"

InsertUnlock ==
  /\ pc = "insertUnlock"
  /\ Pop
  /\ pc' = "rebalEnter"
  /\ HeapUnchanged
  /\ UNCHANGED <<lst, mm, hist, key, roots, nodes, self, dest, walk, rotPivot, lastop, pre, ret, trail, flag>>

\* AATreeInNode::rebalance: readLock(true) on the node's container
RebalanceLock ==
  /\ pc = "rebalEnter"
  /\ Push(root[self], "upread")
  /\ pc' = "rebalStart"
  /\ HeapUnchanged
  /\ UNCHANGED <<lst, mm, hist, key, roots, nodes, self, dest, walk, rotPivot, lastop, pre, ret, trail, flag>>

RebalanceStart ==
  /\ pc = "rebalStart"
  /\ SetHeap(rebalanceEnter(Heap, self))
  /\ walk' = self
  /\ pc' = "rebalance"
  /\ UNCHANGED <<lst, mm, hist, key, roots, nodes, rotPivot, locks, flag, self, dest, lastop, pre, ret, trail>>

\* an iteration of the walk that only assigns the level
LevelStep ==
  /\ pc = "rebalance" /\ walk # None
  /\ rebalanceChoice(Heap, walk) = "level"
  /\ RebalanceStep

\* an iteration that rotates: rotateLeft/rotateRight take writeLock(true)
RotateLock ==
  /\ pc = "rebalance" /\ walk # None
  /\ rebalanceChoice(Heap, walk) # "level"
  /\ pc' = rebalanceChoice(Heap, walk)
  /\ rotPivot' = rotationPivot(Heap, walk)
  /\ Push(root[walk], "upgrade")
  /\ HeapUnchanged
  /\ UNCHANGED <<lst, mm, hist, key, roots, nodes, self, dest, walk, lastop, pre, ret, trail, flag>>

RotateMove ==
  /\ pc \in {"rotateLeft", "rotateRight"}
  /\ LockStep(IF pc = "rotateLeft"
              THEN rotateLeftMove(Heap, walk, rotPivot)
              ELSE rotateRightMove(Heap, walk, rotPivot))
  /\ pc' = IF pc = "rotateLeft" THEN "rotateLeftParent" ELSE "rotateRightParent"

RotateParent ==
  /\ pc \in {"rotateLeftParent", "rotateRightParent"}
  /\ LockStep(rotateParent(Heap, walk, rotPivot))
  /\ pc' = IF pc = "rotateLeftParent" THEN "rotateLeftConnect" ELSE "rotateRightConnect"

RotateConnect ==
  /\ pc \in {"rotateLeftConnect", "rotateRightConnect"}
  /\ LockStep(IF pc = "rotateLeftConnect"
              THEN rotateLeftConnect(Heap, walk, rotPivot)
              ELSE rotateRightConnect(Heap, walk, rotPivot))
  /\ pc' = "rotateUnlock"

\* writeUnlock(save); the walk stays at the rotated node
RotateUnlock ==
  /\ pc = "rotateUnlock"
  /\ Pop
  /\ rotPivot' = None
  /\ pc' = "rebalance"
  /\ HeapUnchanged
  /\ UNCHANGED <<lst, mm, hist, key, roots, nodes, self, dest, walk, lastop, pre, ret, trail, flag>>

\* the walk has ended: readUnlock(save); TreeInRoot::remove then gives its
\* write lock back
LockedExit ==
  /\ pc = "rebalance" /\ walk = None
  /\ IF dest # None /\ root[self] = None
     THEN pc' = "insert" /\ UNCHANGED <<self, dest>> /\ Pop
     ELSE /\ pc' = "idle" /\ self' = None /\ dest' = None
          /\ IF lastop.op = "remove" THEN PopN(2) ELSE Pop
  /\ HeapUnchanged
  /\ UNCHANGED <<lst, mm, hist, key, roots, nodes, walk, rotPivot, lastop, pre, ret, trail, flag>>

NextLock ==
  \/ \E r \in roots, n \in nodes : AddCall(r, n)
  \/ \E r \in roots, n \in nodes : LockedRootRemoveCall(r, n)
  \/ \E n \in nodes : NodeRemoveCall(n)
  \/ RemoveLock
  \/ RemovePrevLock
  \/ RemovePrevUnlock
  \/ RemoveRelink
  \/ RemoveDetach
  \/ RemoveUnlock
  \/ InsertLock
  \/ InsertLink
  \/ InsertInit
  \/ InsertUnlock
  \/ RebalanceLock
  \/ RebalanceStart
  \/ LevelStep
  \/ RotateLock
  \/ RotateMove
  \/ RotateParent
  \/ RotateConnect
  \/ RotateUnlock
  \/ LockedExit

SpecLock == InitMove /\ [][NextLock]_vars

(***************************************************************************)
(* The searches with their read locks, together with the locked mutators.  *)
(***************************************************************************)
\* read locks a returning first() may leave behind before the scenario stops
\* calling it on an empty tree
LeakCap == 1

ProtoKeys == 0..(ProtoNodes + 1)

InitProtocol == Fresh /\ roots = {1} /\ nodes = 1..ProtoNodes

\* entry of a search, up to its readLock
SearchCall(op, n, r, k) ==
  /\ Record(op, n, r, k)
  /\ HeapUnchanged
  /\ UNCHANGED <<lst, mm, hist, key, roots, nodes, rotPivot, self, dest, walk, trail, flag>>

\* find, findMinus, findPlus: readLock(false)
FindEnter(op, r, k) ==
  /\ SearchCall(op, None, r, k)
  /\ Push(r, "read") /\ pc' = "search" /\ UNCHANGED ret

\* first(): readLock(false); on an empty tree it returns with the lock held
FirstEnter(r) ==
  /\ base[r] = None => Len(locks) < LeakCap
  /\ SearchCall("first", None, r, 0)
  /\ Push(r, "read")
  /\ IF base[r] = None
     THEN pc' = "idle" /\ ret' = None
     ELSE pc' = "search" /\ UNCHANGED ret

\* last(): returns before locking on an empty tree; readLock() is called
\* without the upgradable argument
LastEnter(r) ==
  /\ SearchCall("last", None, r, 0)
  /\ IF base[r] = None
     THEN pc' = "idle" /\ ret' = None /\ UNCHANGED locks
     ELSE pc' = "search" /\ Push(r, "read") /\ UNCHANGED ret

\* next(), prev(): readLock(false) on the node's container
StepEnter(op, n) ==
  /\ SearchCall(op, n, None, 0)
  /\ Push(root[n], "read") /\ pc' = "search" /\ UNCHANGED ret

searchResult(h, call) ==
  CASE call.op = "find" -> find(h, call.tree, call.k)
    [] call.op = "findMinus" -> findMinus(h, call.tree, call.k)
    [] call.op = "findPlus" -> findPlus(h, call.tree, call.k)
    [] call.op = "first" -> first(h, call.tree)
    [] call.op = "last" -> last(h, call.tree)
    [] call.op = "next" -> next(h, call.node)
    [] call.op = "prev" -> prev(h, call.node)

\* the walk under the read lock, readUnlock(save) and return
SearchReturn ==
  /\ pc = "search"
  /\ ret' = searchResult(Heap, lastop)
  /\ Pop
  /\ pc' = "idle"
  /\ HeapUnchanged
  /\ UNCHANGED <<lst, mm, hist, key, roots, nodes, rotPivot, self, dest, walk, lastop, pre, trail, flag>>

NextProtocol ==
  \/ NextLock
  \/ \E r \in roots, k \in ProtoKeys : FindEnter("find", r, k)
  \/ \E r \in roots, k \in ProtoKeys : FindEnter("findMinus", r, k)
  \/ \E r \in roots, k \in ProtoKeys : FindEnter("findPlus", r, k)
  \/ \E r \in roots : FirstEnter(r)
  \/ \E r \in roots : LastEnter(r)
  \/ \E n \in nodes : StepEnter("next", n)
  \/ \E n \in nodes : StepEnter("prev", n)
  \/ SearchReturn

SpecProtocol == InitProtocol /\ [][NextProtocol]_vars

(***************************************************************************)
(* The unbalanced tree (TreeInRoot/TreeInNode used directly) with its      *)
(* check() compiled in.                                                    *)
(***************************************************************************)
\* cap of the ghost list of checked nodes
VisitCap == 2 * MaxNodes

\* TreeInNode::rebalance of the unbalanced tree: the empty hook
PlainRebalance ==
  /\ pc = "rebalEnter"
  /\ IF dest # None /\ root[self] = None
     THEN pc' = "insert" /\ UNCHANGED <<self, dest>>
     ELSE pc' = "idle" /\ self' = None /\ dest' = None
  /\ HeapUnchanged
  /\ UNCHANGED <<lst, mm, hist, key, roots, nodes, rotPivot, locks, flag, walk, lastop, pre, ret, trail>>

\* TreeInRoot::check up to its loop
CheckEnter(r) ==
  /\ Call("check", None, r, 0)
  /\ ret' = None /\ trail' = <<>>
  /\ HeapUnchanged /\ UNCHANGED <<self, dest>>
  /\ IF base[r] = None
     THEN flag' = TRUE /\ UNCHANGED <<pc, walk>>
     ELSE IF root[base[r]] # r \/ parent[base[r]] # None
     THEN flag' = FALSE /\ UNCHANGED <<pc, walk>>
     ELSE flag' = TRUE /\ pc' = "check" /\ walk' = base[r]

\* while(node): one iteration, or the return after the loop
CheckStep ==
  /\ pc = "check"
  /\ IF walk = None
     THEN pc' = "idle" /\ UNCHANGED <<flag, walk, trail>>
     ELSE /\ flag' = TreeInNode_check(Heap, walk)
          /\ trail' = IF Len(trail) < VisitCap THEN Append(trail, walk) ELSE trail
          /\ IF flag'
             THEN walk' = checkAdvance(Heap, walk) /\ pc' = pc
             ELSE walk' = None /\ pc' = "idle"
  /\ HeapUnchanged
  /\ UNCHANGED <<lst, mm, hist, key, roots, nodes, rotPivot, locks, self, dest, lastop, pre, ret>>

NextCheck ==
  \/ \E r \in roots, n \in nodes : AddCall(r, n)
  \/ \E r \in roots, n \in nodes : RootRemoveCall(r, n)
  \/ \E n \in nodes : NodeRemoveCall(n)
  \/ Unlink
  \/ Insert
  \/ PlainRebalance
  \/ \E r \in roots : CheckEnter(r)
  \/ CheckStep

SpecCheck == InitProtocol /\ [][NextCheck]_vars

\* two trees that are used and then destroyed; a node of a destroyed tree is
\* not used again
NextDestroy ==
  \/ roots = Roots /\ Mutate
  \/ \E r \in roots : Destroy(r)

SpecDestroy == InitMove /\ [][NextDestroy]_vars

\* the rebalance loop runs in the calling thread until its condition fails
SpecLive == Init /\ [][Next]_vars /\ WF_vars(RebalanceStep)

(***************************************************************************)
(* The rotations called on their own, as a class derived from BalTreeInNode *)
(* may call them: a rotation at a member that has the pivot child, and     *)
(* then the opposite rotation at the node it returned.                     *)
(***************************************************************************)
Links4(h) == [parent |-> h.parent, left |-> h.left, right |-> h.right, base |-> h.base]

RotateCall(op, n, pivot, h) ==
  /\ Record(op, n, root[n], 0) /\ Mutator
  /\ root[n] # None /\ pivot # None
  /\ hist' = <<Links4(Heap)>>
  /\ SetHeap(h)
  /\ rotPivot' = pivot
  /\ pc' = "rotated"
  /\ UNCHANGED <<lst, mm, key, roots, nodes, locks, self, dest, walk>>

RotateLeftCall(n) == RotateCall("rotateLeft", n, right[n], rotateLeft(Heap, n))

RotateRightCall(n) == RotateCall("rotateRight", n, left[n], rotateRight(Heap, n))

\* the opposite rotation at the returned pivot
RotateBack ==
  /\ pc = "rotated"
  /\ SetHeap(IF lastop.op = "rotateLeft"
             THEN rotateRight(Heap, rotPivot)
             ELSE rotateLeft(Heap, rotPivot))
  /\ pc' = "restored"
  /\ UNCHANGED <<lst, mm, hist, key, roots, nodes, rotPivot, locks, flag, self, dest, walk, lastop, pre, ret, trail>>

RotateReturn ==
  /\ pc = "restored"
  /\ pc' = "idle" /\ rotPivot' = None /\ hist' = <<>>
  /\ HeapUnchanged
  /\ UNCHANGED <<lst, mm, key, roots, nodes, locks, flag, self, dest, walk, lastop, pre, ret, trail>>

\* the caller leaves the tree as the first rotation made it
RotateKeep ==
  /\ pc = "rotated"
  /\ pc' = "idle" /\ rotPivot' = None /\ hist' = <<>>
  /\ HeapUnchanged
  /\ UNCHANGED <<lst, mm, key, roots, nodes, locks, flag, self, dest, walk, lastop, pre, ret, trail>>

NextRotate ==
  \/ Mutate
  \/ \E n \in nodes : RotateLeftCall(n)
  \/ \E n \in nodes : RotateRightCall(n)
  \/ RotateBack
  \/ RotateReturn
  \/ RotateKeep

\* one tree, MoveNodes nodes
InitRotate == Fresh /\ roots = {1} /\ nodes = 1..MoveNodes

SpecRotate == InitRotate /\ [][NextRotate]_vars


SpecMove == InitMove /\ [][Mutate]_vars

(***************************************************************************)
(* The list and link containers as state machines.  Their member functions *)
(* take no lock between two assignments that another holder could observe  *)
(* under ContainerNoSafety, so each call is one step.                      *)
(***************************************************************************)
treeVars == <<base, root, parent, left, right, level, roots, nodes,
              pc, self, dest, walk, rotPivot, locks, pre, ret, trail>>

\* a call on a list: l is the list heap the member function leaves
ListCall(op, n, r, k, l) ==
  /\ pc = "idle"
  /\ lastop' = [op |-> op, node |-> n, tree |-> r, k |-> k]
  /\ lst' = l
  /\ UNCHANGED treeVars
  /\ UNCHANGED <<key, mm, hist, flag>>

NoTree == Blank /\ roots = {} /\ nodes = {}

\* ListInRoot::ListInRoot initialises m_first only: m_last holds whatever
\* the storage held
InitList ==
  /\ NoTree /\ key = [n \in Nodes |-> n]
  /\ \E u \in [Lists -> {None, Wild}] : lst = [NoList EXCEPT !.last = u]

ListAddFirst(r, n) == ListCall("addFirst", n, r, 0, ListInRoot_addFirst(lst, r, n))

ListAddLast(r, n) == ListCall("addLast", n, r, 0, ListInRoot_addLast(lst, r, n))

ListAddAfter(me, node) ==
  ListCall("addAfter", me, None, node, ListInNode_addAfter(lst, me, node))

ListRemove(r, n) == ListCall("remove", n, r, 0, ListInRoot_remove(lst, r, n))

\* one singly linked list and SingleLen nodes
SingleItems == 1..SingleLen

NextList ==
  \/ \E n \in SingleItems : ListAddFirst(1, n)
  \/ \E n \in SingleItems : ListAddLast(1, n)
  \/ \E me \in SingleItems, node \in SingleItems : ListAddAfter(me, node)
  \/ \E n \in SingleItems : ListRemove(1, n)

SpecList == InitList /\ [][NextList]_vars

\* DListInRoot::DListInRoot initialises both ends
InitDList == NoTree /\ key = [n \in Nodes |-> n] /\ lst = NoList

DListAddFirst(r, n) == ListCall("addFirst", n, r, 0, DListInRoot_addFirst(lst, r, n))

DListAddLast(r, n) == ListCall("addLast", n, r, 0, DListInRoot_addLast(lst, r, n))

DListAddAfter(me, node) ==
  ListCall("addAfter", me, None, node, DListInNode_addAfter(lst, me, node))

DListRemove(r, n) == ListCall("remove", n, r, 0, DListInRoot_remove(lst, r, n))

DListNodeRemove(n) == ListCall("remove", n, None, 0, DListInNode_remove(lst, n))

NextDList ==
  \/ \E r \in Lists, n \in Items : DListAddFirst(r, n)
  \/ \E r \in Lists, n \in Items : DListAddLast(r, n)
  \/ \E me \in Items, node \in Items : DListAddAfter(me, node)
  \/ \E r \in Lists, n \in Items : DListRemove(r, n)
  \/ \E n \in Items : DListNodeRemove(n)

SpecDList == InitDList /\ [][NextDList]_vars

\* sorted lists: the caller's keys, equal keys included
SortKeys == 1..2

InitSort ==
  /\ NoTree /\ lst = NoList
  /\ \E f \in [Items -> SortKeys] :
       key = [n \in Nodes |-> IF n \in Items THEN f[n] ELSE 0]

SortListAdd(r, n) == ListCall("add", n, r, 0, SortListInRoot_add(lst, r, n))

SortDListAdd(r, n) == ListCall("add", n, r, 0, SortDListInRoot_add(lst, r, n))

NextSortList == \E r \in Lists, n \in Items : SortListAdd(r, n)

SpecSortList == InitSort /\ [][NextSortList]_vars

NextSortDList == \E r \in Lists, n \in Items : SortDListAdd(r, n)

SpecSortDList == InitSort /\ [][NextSortDList]_vars

\* a call on the many-to-many links: m is the link heap it leaves, found the
\* flag it returns (add functions return nothing)
LinkCall(op, link, r, n, m, found) ==
  /\ pc = "idle"
  /\ lastop' = [op |-> op, node |-> link, tree |-> r, k |-> n]
  /\ mm' = m
  /\ flag' = found
  /\ UNCHANGED <<base, root, parent, left, right, level, roots, nodes,
                 self, dest, walk, rotPivot, locks, pre, ret, trail>>
  /\ UNCHANGED <<key, lst, hist>>

InitLinks == NoTree /\ key = [n \in Nodes |-> n] /\ lst = NoList

RootAdd(r, n, link) ==
  LinkCall("Root::add", link, r, n, ManyMany_add(mm, r, n, link), flag) /\ UNCHANGED pc

RootAddFirst(r, n, link) ==
  LinkCall("Root::addFirst", link, r, n, ManyMany_addFirst(mm, r, n, link), flag)
  /\ UNCHANGED pc

RootAddLast(r, n, link) ==
  LinkCall("Root::addLast", link, r, n, ManyManyRoot_addLast(mm, r, n, link), flag)
  /\ UNCHANGED pc

NodeAdd(n, r, link) ==
  LinkCall("Node::add", link, r, n, ManyMany_add(mm, r, n, link), flag) /\ UNCHANGED pc

NodeAddFirst(n, r, link) ==
  LinkCall("Node::addFirst", link, r, n, ManyMany_addFirst(mm, r, n, link), flag)
  /\ UNCHANGED pc

NodeAddLast(n, r, link) ==
  LinkCall("Node::addLast", link, r, n, ManyManyNode_addLast(mm, n, r, link), flag)
  /\ UNCHANGED pc

LinkRootRemove(r, n) ==
  LET res == ManyManyRoot_remove(mm, r, n)
  IN  LinkCall("Root::remove", None, r, n, res.m, res.found) /\ UNCHANGED pc

\* a call that never returns leaves the caller inside it
LinkNodeRemove(n, r) ==
  LET res == ManyManyNode_remove(mm, n, r)
  IN  /\ LinkCall("Node::remove", None, r, n, res.m, IF res.hangs THEN flag ELSE res.found)
      /\ pc' = IF res.hangs THEN "hang" ELSE pc

NextLinks ==
  \/ \E r \in MRoots, n \in MNodes, link \in Links : RootAdd(r, n, link)
  \/ \E r \in MRoots, n \in MNodes, link \in Links : RootAddFirst(r, n, link)
  \/ \E r \in MRoots, n \in MNodes, link \in Links : RootAddLast(r, n, link)
  \/ \E r \in MRoots, n \in MNodes, link \in Links : NodeAdd(n, r, link)
  \/ \E r \in MRoots, n \in MNodes, link \in Links : NodeAddFirst(n, r, link)
  \/ \E r \in MRoots, n \in MNodes, link \in Links : NodeAddLast(n, r, link)
  \/ \E r \in MRoots, n \in MNodes : LinkRootRemove(r, n)
  \/ \E r \in MRoots, n \in MNodes : LinkNodeRemove(n, r)

SpecLinks == InitLinks /\ [][NextLinks]_vars

(***************************************************************************)
(* Properties                                                              *)
(***************************************************************************)
Attached(n) == root[n] # None

Idle == pc = "idle"

RECURSIVE subtree(_, _, _)
subtree(h, n, f) ==
  IF n = None \/ f = 0 THEN {}
  ELSE {n} \cup subtree(h, h.left[n], f - 1) \cup subtree(h, h.right[n], f - 1)

InSomeTree(n) == \E r \in Roots : n \in members(Heap, r)

WasIn(n, r) == n \in Range(pre[r])

WasDetached(n) == \A r \in Roots : ~WasIn(n, r)

Without(s, n) == SelectSeq(s, LAMBDA x : x # n)

AALevelOK(n) ==
  LET L == levelOf(Heap, left[n])
      R == levelOf(Heap, right[n])
      G == IF right[n] # None THEN levelOf(Heap, right[right[n]]) ELSE 0
  IN  /\ level[n] = L + 1
      /\ R = level[n] \/ R = level[n] - 1
      /\ G < level[n]
      /\ level[n] > 1 => left[n] # None /\ right[n] # None

\* C1: after every completed add or remove every attached node satisfies the
\* AA level rules: level = left level + 1 (absent = 0), right level equals the
\* level or is one less, right-right level is strictly less, and a node with
\* level > 1 has both children.
C1_AALevelRules == Idle => \A n \in Nodes : Attached(n) => AALevelOK(n)

\* C2: after every completed add or remove the linkage is consistent: root is
\* none iff the node is in no tree (and then parent, left, right are none); a
\* node with a root and no parent is its root's base and the base points back;
\* every child's parent holds it as left or right child and shares its root.
C2_Linkage ==
  Idle =>
    /\ \A n \in Nodes :
         /\ (root[n] = None) <=> ~InSomeTree(n)
         /\ root[n] = None => parent[n] = None /\ left[n] = None /\ right[n] = None
         /\ root[n] # None /\ parent[n] = None => base[root[n]] = n
         /\ parent[n] # None =>
              /\ left[parent[n]] = n \/ right[parent[n]] = n
              /\ root[n] = root[parent[n]]
         /\ left[n] # None => parent[left[n]] = n /\ root[left[n]] = root[n]
         /\ right[n] # None => parent[right[n]] = n /\ root[right[n]] = root[n]
    /\ \A r \in Roots :
         base[r] # None => parent[base[r]] = None /\ root[base[r]] = r

\* a removal from a full tree has completed
C2_Witness ==
  /\ Idle /\ lastop.op \in {"remove", "nremove"}
  /\ \E r \in Roots : Len(pre[r]) = MoveNodes /\ Len(inorder(Heap, r)) = MoveNodes - 1
  /\ \E r \in Roots : Len(pre[r]) = 0

\* C3: after every completed add or remove the tree is a binary search tree
\* under the comparator: nothing in x's left subtree is greater than x and
\* nothing in x's right subtree is less than x.
C3_SearchTree ==
  Idle =>
    \A x \in Nodes :
      /\ \A y \in subtree(Heap, left[x], Fuel) : compare(x, y) <= 0 /\ compare(y, x) >= 0
      /\ \A y \in subtree(Heap, right[x], Fuel) : compare(x, y) >= 0 /\ compare(y, x) <= 0

\* an add into a tree of three has completed and the base has both subtrees
C3_Witness ==
  /\ Idle /\ lastop.op = "add"
  /\ \E r \in Roots :
       /\ Len(pre[r]) = 3 /\ Len(inorder(Heap, r)) = 4
       /\ base[r] # None /\ left[base[r]] # None /\ right[base[r]] # None

IsPrefix(s, t) == Len(s) <= Len(t) /\ SubSeq(t, 1, Len(s)) = s

Reverse(s) == [i \in 1..Len(s) |-> s[Len(s) + 1 - i]]

\* the nodes of S in ascending key order
RECURSIVE Ascending(_)
Ascending(S) ==
  IF S = {} THEN <<>>
  ELSE LET m == CHOOSE x \in S : \A y \in S : key[x] <= key[y]
       IN  <<m>> \o Ascending(S \ {m})

StrictlyAscending(s) == \A i \in 1..(Len(s) - 1) : key[s[i]] < key[s[i + 1]]

\* C4: first() followed by repeated next() visits every member exactly once
\* in strictly ascending key order and then returns none; last() followed by
\* repeated prev() visits exactly the reverse sequence.
C4_Traversal ==
  Idle =>
    /\ lastop.op \in {"first", "next"} =>
         LET want == Ascending(members(Heap, lastop.tree))
         IN  /\ IsPrefix(trail, want) /\ StrictlyAscending(trail)
             /\ ret = None => trail = want
             /\ ret # None => ret = trail[Len(trail)]
    /\ lastop.op \in {"last", "prev"} =>
         LET want == Reverse(Ascending(members(Heap, lastop.tree)))
         IN  /\ IsPrefix(trail, want)
             /\ ret = None => trail = want
             /\ ret # None => ret = trail[Len(trail)]

\* a forward traversal of a tree holding every node, whose base has both
\* subtrees, has run to its end
C4_Witness ==
  /\ Idle /\ lastop.op = "next" /\ ret = None /\ Len(trail) = NumNodes
  /\ left[base[lastop.tree]] # None /\ right[base[lastop.tree]] # None

\* C5: find(k) returns a member whose key compares equal to k if there is
\* one, and none if no member has key k.
C5_Find ==
  Idle /\ lastop.op = "find" =>
    LET S == members(Heap, lastop.tree)
    IN  IF \E n \in S : compareKey(n, lastop.k) = 0
        THEN ret \in S /\ compareKey(ret, lastop.k) = 0
        ELSE ret = None

\* find has returned a node two links below the base
C5_Witness ==
  /\ Idle /\ lastop.op = "find" /\ ret # None
  /\ parent[ret] # None /\ parent[parent[ret]] # None

Floor(S, k) ==
  IF \E n \in S : key[n] <= k
  THEN CHOOSE n \in S : key[n] <= k /\ \A m \in S : key[m] <= k => key[m] <= key[n]
  ELSE None

Ceiling(S, k) ==
  IF \E n \in S : key[n] >= k
  THEN CHOOSE n \in S : key[n] >= k /\ \A m \in S : key[m] >= k => key[m] >= key[n]
  ELSE None

\* C6: findMinus(k) returns the member with the largest key <= k, and none
\* when no member has a key <= k.
C6_FindMinusIsFloor ==
  Idle /\ lastop.op = "findMinus" =>
    ret = Floor(members(Heap, lastop.tree), lastop.k)

\* C7: findPlus(k) returns the member with the smallest key >= k, and none
\* when no member has a key >= k.
C7_FindPlusIsCeiling ==
  Idle /\ lastop.op = "findPlus" =>
    ret = Ceiling(members(Heap, lastop.tree), lastop.k)

\* C8: remove(node) on an attached node removes exactly that node: the tree's
\* in-order sequence is the previous one without node, the other tree is
\* untouched, and node has root = parent = left = right = none.
C8_RemoveExact ==
  Idle /\ lastop.op \in {"remove", "nremove"} =>
    \A t \in Roots :
      WasIn(lastop.node, t) /\ (lastop.op = "remove" => lastop.tree = t) =>
        /\ inorder(Heap, t) = Without(pre[t], lastop.node)
        /\ \A u \in Roots \ {t} : inorder(Heap, u) = pre[u]
        /\ root[lastop.node] = None /\ parent[lastop.node] = None
        /\ left[lastop.node] = None /\ right[lastop.node] = None

\* the third of four members had two children and was removed; its
\* predecessor, which was not its direct left child, now holds its place
C8_Witness ==
  /\ Idle /\ lastop.op \in {"remove", "nremove"}
  /\ \E t \in Roots :
       /\ Len(pre[t]) = 4 /\ lastop.node = pre[t][3]
       /\ base[t] = pre[t][2]
       /\ left[base[t]] = pre[t][1] /\ right[base[t]] = pre[t][4]
       /\ root[lastop.node] = None

\* C9: add(node) of a detached node adds exactly that node: the tree's
\* in-order sequence without node is the previous one, node is a member with
\* this tree as root, the other tree is untouched, and into an empty tree
\* node becomes the base with no parent.
C9_AddExact ==
  Idle /\ lastop.op = "add" /\ WasDetached(lastop.node) =>
    LET t == lastop.tree
        n == lastop.node
    IN  /\ Without(inorder(Heap, t), n) = pre[t]
        /\ Len(inorder(Heap, t)) = Len(pre[t]) + 1
        /\ n \in members(Heap, t) /\ root[n] = t
        /\ \A u \in Roots \ {t} : inorder(Heap, u) = pre[u]
        /\ pre[t] = <<>> => base[t] = n /\ parent[n] = None

\* a detached node was added to a tree of at least two and the rebalance
\* rotated it above its insertion point
C9_Witness ==
  /\ Idle /\ lastop.op = "add" /\ WasDetached(lastop.node)
  /\ root[lastop.node] = lastop.tree /\ Len(pre[lastop.tree]) >= 2
  /\ left[lastop.node] # None \/ right[lastop.node] # None

\* C10: in every observable state, the lock boundaries inside a move from one
\* tree to another included, a node is reachable from at most one root's base.
C10_AtMostOneTree ==
  \A n \in Nodes : Cardinality({r \in Roots : n \in members(Heap, r)}) <= 1

\* between the two locked sections of a move: the node has left its old tree
\* and is not yet in the new, non-empty, one
C10_Witness ==
  /\ pc = "insert" /\ lastop.op = "add" /\ ~InSomeTree(self)
  /\ \E t \in Roots \ {dest} : WasIn(self, t)
  /\ base[dest] # None

\* the structural and ordering invariants (1-4) of tree r
StructureOK(h, r) ==
  /\ h.base[r] # None => h.parent[h.base[r]] = None /\ h.root[h.base[r]] = r
  /\ \A n \in Nodes :
       /\ (h.root[n] = r) <=> n \in members(h, r)
       /\ h.root[n] = r /\ h.parent[n] = None => h.base[r] = n
       /\ h.root[n] = r /\ h.parent[n] # None =>
            /\ h.left[h.parent[n]] = n \/ h.right[h.parent[n]] = n
            /\ h.root[h.parent[n]] = r
       /\ h.root[n] = r /\ h.left[n] # None =>
            h.parent[h.left[n]] = n /\ h.root[h.left[n]] = r
       /\ h.root[n] = r /\ h.right[n] # None =>
            h.parent[h.right[n]] = n /\ h.root[h.right[n]] = r

OrderOK(h, r) ==
  \A x \in members(h, r) :
    /\ \A y \in subtree(h, h.left[x], Fuel) : compare(x, y) <= 0
    /\ \A y \in subtree(h, h.right[x], Fuel) : compare(x, y) >= 0

LevelsOK(r) == \A n \in members(Heap, r) : AALevelOK(n)

C12_MoveKeepsSourceValid ==
  Idle /\ lastop.op = "add" =>
    \A A \in Roots \ {lastop.tree} :
      WasIn(lastop.node, A) =>
        /\ lastop.node \notin members(Heap, A)
        /\ lastop.node \in members(Heap, lastop.tree)
        /\ StructureOK(Heap, A) /\ OrderOK(Heap, A) /\ LevelsOK(A)

\* C13: root.remove(node) when node is not attached to this root (detached or
\* on another tree) changes nothing in either tree nor in node.
C13_RemoveForeignIsNoOp ==
  [][(pc = "idle" /\ lastop'.op = "remove" /\ root[lastop'.node] # lastop'.tree)
       => (Heap' = Heap /\ pc' = "idle" /\ walk' = walk)]_vars

\* root.remove returned for a node that is a member of the other tree
C13_Witness ==
  /\ Idle /\ lastop.op = "remove"
  /\ \E t \in Roots \ {lastop.tree} :
       /\ WasIn(lastop.node, t) /\ lastop.node \in members(Heap, t)
       /\ Len(pre[t]) >= 2
  /\ base[lastop.tree] # None

\* C17: on an empty tree first, last, find, findMinus and findPlus return
\* none for every key; on a tree of exactly one node first and last return
\* that node and next and prev from it return none.
C17_EmptyAndSingle ==
  Idle /\ lastop.tree \in Roots =>
    LET S == members(Heap, lastop.tree)
    IN  /\ S = {} /\ lastop.op \in {"first", "last", "find", "findMinus", "findPlus"}
             => ret = None
        /\ Cardinality(S) = 1 /\ lastop.op \in {"first", "last"} => ret \in S
        /\ Cardinality(S) = 1 /\ lastop.op \in {"next", "prev"} /\ lastop.node \in S
             => ret = None

\* next() was called on the only member of a tree that held more before
C17_Witness ==
  /\ Idle /\ lastop.op = "next" /\ ret = None
  /\ members(Heap, lastop.tree) = {lastop.node}
  /\ \E n \in Nodes : root[n] = None /\ level[n] # 0

\* C18: a detached AA node has level 0, both before its first insertion and
\* after remove() has completed.
C18_DetachedLevelZero ==
  Idle => \A n \in Nodes : root[n] = None => level[n] = 0

\* C14: every run of the AA rebalance walk terminates, in every tree state
\* reachable by adds and removes: after finitely many rotations and level
\* updates the walk has ascended past the base node.
C14_WalkTerminates == (pc = "rebalance") ~> (pc = "rebalance" /\ walk = None)

\* a walk that rotated on its way has ascended past the base of a full tree
C14_Witness ==
  /\ pc = "rebalance" /\ walk = None /\ lastop.op = "add"
  /\ Cardinality(members(Heap, lastop.tree)) = NumNodes
  /\ inorder(Heap, lastop.tree) # <<>> /\ base[lastop.tree] # self
  /\ level[base[lastop.tree]] >= 2

\* number of nodes on the longest path from n down to a leaf
RECURSIVE height(_, _, _)
height(h, n, f) ==
  IF n = None \/ f = 0 THEN 0
  ELSE 1 + Max(height(h, h.left[n], f - 1), height(h, h.right[n], f - 1))

RECURSIVE Pow2(_)
Pow2(e) == IF e = 0 THEN 1 ELSE 2 * Pow2(e - 1)

\* C15: after every insert of an insert-only run into an empty AA tree, in
\* any order of distinct keys, the height is at most 2*log2(N+1) for the N
\* nodes in the tree, i.e. 2^height <= (N+1)^2.
C15_HeightBound ==
  Idle =>
    \A r \in roots :
      LET N == Cardinality(members(Heap, r))
      IN  Pow2(height(Heap, base[r], Fuel)) <= (N + 1) * (N + 1)

\* all GrowNodes keys are in, the largest one inserted last into the
\* ascending run of the others
C15_Witness ==
  /\ Idle /\ lastop.op = "add" /\ lastop.node = GrowNodes
  /\ Len(pre[1]) = GrowNodes - 1
  /\ Cardinality(members(Heap, 1)) = GrowNodes
  /\ height(Heap, base[1], Fuel) >= 3

\* C16: after a tree root is destroyed the sweep has ended and every node
\* that was a member is fully detached: its root, parent, left and right
\* are none.
C16_DestroyDetaches ==
  lastop.op = "destroy" =>
    /\ walk = None
    /\ \A n \in Range(pre[lastop.tree]) :
         root[n] = None /\ parent[n] = None /\ left[n] = None /\ right[n] = None

\* C19: with checking compiled in, check() on an AA tree root returns true
\* exactly when every member node satisfies the structural, ordering and AA
\* level invariants, and false when any member violates one.
C19_CheckExact ==
  Idle /\ lastop.op = "check" =>
    (flag <=> /\ StructureOK(Heap, lastop.tree)
              /\ OrderOK(Heap, lastop.tree)
              /\ LevelsOK(lastop.tree))

NodeFields(n) == <<root[n], parent[n], left[n], right[n]>>

FreeNodesOK ==
  \A n \in Nodes :
    root[n] = None => parent[n] = None /\ left[n] = None /\ right[n] = None

\* a step changes base or a node's root/parent/left/right only for a tree
\* whose write lock is held
RelinkUnderWriteLock ==
  /\ \A r \in Roots : base'[r] # base[r] => Locked(r)
  /\ \A n \in Nodes :
       NodeFields(n)' # NodeFields(n) =>
         \/ root[n] # None /\ Locked(root[n])
         \/ root'[n] # None /\ Locked(root'[n])
         \/ \E p \in Nodes : p \in {parent[n], parent'[n]} /\ root[p] # None /\ Locked(root[p])

NoWriteLock == \A i \in DOMAIN locks : locks[i].how \notin {"write", "upgrade"}

\* C20: a reader never sees a partially relinked tree: add, remove,
\* rotateLeft and rotateRight change a root's base and a node's
\* root/parent/left/right only while the tree's write lock is held, and
\* whenever no write lock is held on a tree the structural and ordering
\* invariants 1-4 hold for it.
C20_ReadersSeeWholeTrees ==
  /\ [](\A r \in Roots : ~ Locked(r) => StructureOK(Heap, r) /\ OrderOK(Heap, r))
  /\ [](NoWriteLock => FreeNodesOK)
  /\ [][RelinkUnderWriteLock]_vars

\* in the middle of a rotation, under the write lock, the pivot is cut off
C20_Witness ==
  /\ pc \in {"rotateLeftParent", "rotateRightParent"}
  /\ Locked(root[walk])
  /\ ~ StructureOK(Heap, root[walk])
  /\ left[rotPivot] # None /\ right[rotPivot] # None

\* C28: after remove() has unlinked a node, the rebalance walk runs over the
\* tree that lost it (from the replacement, or the former parent, up to the
\* base): while it runs, its position is a member of that tree.
C28_WalkOverLosingTree ==
  pc = "rebalance" /\ root[self] = None =>
    \A t \in Roots :
      WasIn(self, t) /\ base[t] # None =>
        walk = None \/ walk \in members(Heap, t)

\* C29: in an insert-only run into an empty AA tree every attached node meets
\* the AA level rules after each insert has completed.
C29_InsertOnlyLevels ==
  Idle /\ lastop.op = "add" =>
    \A r \in roots : \A n \in members(Heap, r) : AALevelOK(n)

\* an insert that needed rotations has completed a three-level tree
C29_Witness ==
  /\ Idle /\ lastop.op = "add" /\ WasDetached(lastop.node)
  /\ Cardinality(members(Heap, 1)) = GrowNodes
  /\ level[base[1]] = 3
  /\ parent[lastop.node] # None /\ left[lastop.node] # None

\* the content of the slot that held n before the step: its former parent's
\* child link, or the root's base
SlotAfter(n) ==
  IF parent[n] = None THEN base'[root[n]]
  ELSE IF left[parent[n]] = n THEN left'[parent[n]] ELSE right'[parent[n]]

RemovePlacement(n) ==
  LET pred == rightmost(Heap, left[n], Fuel)
  IN  IF left[n] = None /\ right[n] = None THEN SlotAfter(n) = None
      ELSE IF left[n] = None THEN SlotAfter(n) = right[n] /\ parent'[right[n]] = parent[n]
      ELSE IF right[n] = None THEN SlotAfter(n) = left[n] /\ parent'[left[n]] = parent[n]
      ELSE /\ SlotAfter(n) = pred /\ parent'[pred] = parent[n]
           /\ right'[pred] = right[n] /\ parent'[right[n]] = pred
           /\ IF pred = left[n]
              THEN left'[pred] = left[pred]
              ELSE /\ left'[pred] = left[n] /\ parent'[left[n]] = pred
                   /\ right'[parent[pred]] = left[pred]
                   /\ left[pred] # None => parent'[left[pred]] = parent[pred]

\* C30: after remove(node) the removed node's former position holds nothing
\* if it had no child, its sole child if it had one, and its in-order
\* predecessor if it had two; the predecessor takes over the right child
\* and, when it was not the direct left child, the left child too, its
\* former parent adopting the predecessor's left child as right child.
C30_RemovePlacement ==
  [][(pc = "remove" /\ pc' = "rebalEnter") => RemovePlacement(self)]_vars

\* a node with two children was removed; its predecessor, now in its place,
\* has handed its own left child to its former parent
C30_Witness ==
  /\ pc = "rebalEnter" /\ root[self] = None
  /\ \E t \in Roots : \E i \in 2..Len(pre[t]) :
       /\ pre[t][i] = self
       /\ LET pred == pre[t][i - 1]
          IN  /\ left[pred] # None /\ right[pred] # None
              /\ \E q \in Nodes : parent[q] # None /\ parent[q] # pred
                                  /\ right[parent[q]] = q /\ i > 2 /\ pre[t][i - 2] = q
                                  /\ q \in subtree(Heap, left[pred], Fuel)

(***************************************************************************)
(* Linked lists and many-to-many links                                     *)
(***************************************************************************)
ChainFuel == ListLen + SingleLen + NumLinks + 1

\* the nodes met from n along m_next (observation helper)
RECURSIVE chainFrom(_, _, _)
chainFrom(l, n, f) ==
  IF n = None \/ f = 0 THEN <<>>
  ELSE <<n>> \o chainFrom(l, l.next[n], f - 1)

chain(l, r) == chainFrom(l, l.first[r], ChainFuel)

ListOps == {"addFirst", "addLast", "addAfter", "remove"}

ListRootOK(l, r) ==
  /\ (l.first[r] = None) <=> (l.last[r] = None)
  /\ l.first[r] # None =>
       /\ l.root[l.first[r]] = r
       /\ l.last[r] \in DOMAIN l.root
       /\ l.root[l.last[r]] = r
       /\ l.next[l.last[r]] = None
       /\ chain(l, r)[Len(chain(l, r))] = l.last[r]
  /\ \A n \in DOMAIN l.root : l.root[n] = r => n \in Range(chain(l, r))

\* C23: after any sequence of addFirst, addLast, addAfter and remove on a
\* singly linked list the root invariant holds: first is none iff last is
\* none; when the list is not empty first and last have this list as root,
\* last has no next and ends the chain that starts at first, and every
\* member is on that chain.
C23_ListRootInvariant == lastop.op \in ListOps => ListRootOK(lst, 1)

DListRootOK(l, r) ==
  /\ (l.first[r] = None) <=> (l.last[r] = None)
  /\ l.first[r] # None =>
       /\ l.root[l.first[r]] = r /\ l.prev[l.first[r]] = None
       /\ l.root[l.last[r]] = r /\ l.next[l.last[r]] = None

DListNodeOK(l, n) ==
  IF l.root[n] = None
  THEN l.prev[n] = None /\ l.next[n] = None
  ELSE /\ IF l.prev[n] # None
          THEN l.next[l.prev[n]] = n /\ l.root[l.prev[n]] = l.root[n]
          ELSE l.first[l.root[n]] = n
       /\ IF l.next[n] # None
          THEN l.prev[l.next[n]] = n /\ l.root[l.next[n]] = l.root[n]
          ELSE l.last[l.root[n]] = n

\* C27: after any sequence of addFirst, addLast, addAfter and remove on
\* doubly linked lists, first is none iff last is none, first has no prev
\* and last has no next, the neighbours of every member point back to it
\* and share its root, and a node with no root has no prev and no next.
C27_DListInvariants ==
  /\ \A r \in Lists : DListRootOK(lst, r)
  /\ \A n \in Items : DListNodeOK(lst, n)

\* a node has just added itself between two members of a list
C27_Witness ==
  /\ lastop.op = "addAfter"
  /\ lst.prev[lastop.node] = lastop.k
  /\ lst.next[lastop.node] # None
  /\ lst.prev[lastop.k] # None

Sorted(s) == \A i \in 1..(Len(s) - 1) : sortCompare(s[i], s[i + 1]) >= 0

PlacedIn(s, node) ==
  \E p \in DOMAIN s :
    /\ s[p] = node
    /\ \A i \in 1..(p - 1) : sortCompare(s[i], node) >= 0
    /\ \A i \in (p + 1)..Len(s) : sortCompare(s[i], node) < 0

\* C24: after add(node) on a sorted list, node is a member of the list,
\* every member before it has compare(member, node) >= 0, every member
\* after it has compare(member, node) < 0 (none was added later), and the
\* list is sorted.
C24_SortedAddPlaces ==
  lastop.op = "add" =>
    /\ PlacedIn(chain(lst, lastop.tree), lastop.node)
    /\ Sorted(chain(lst, lastop.tree))

LinkChainR(m, r) == chainFrom(m.R, m.R.first[r], ChainFuel)

LinkChainN(m, n) == chainFrom(m.N, m.N.first[n], ChainFuel)

LinkOK(m, link) ==
  /\ (m.R.root[link] = None) <=> (m.N.root[link] = None)
  /\ m.R.root[link] # None => link \in Range(LinkChainR(m, m.R.root[link]))
  /\ m.N.root[link] # None => link \in Range(LinkChainN(m, m.N.root[link]))
  /\ (m.R.root[link] = None /\ m.N.root[link] = None) =>
       /\ m.R.next[link] = None /\ m.R.prev[link] = None
       /\ m.N.next[link] = None /\ m.N.prev[link] = None

\* C25: after any sequence of add, addFirst, addLast and remove on roots
\* and nodes, every link points to both sides or to neither; a connected
\* link is on its root's list and on its node's list, and a disconnected
\* link has no next and no prev on either side.
C25_LinkBothOrNeither == \A link \in Links : LinkOK(mm, link)

Joins(m, link, r, n) == m.R.root[link] = r /\ m.N.root[link] = n

\* C26: ManyManyRoot::remove(node) returns true and removes a link between
\* this root and node whenever one exists, wherever it is on the root's
\* list and whatever other roots node is linked to, all other links staying
\* as they were; it returns false and changes nothing when there is none.
C26_RootRemoveFinds ==
  [][lastop'.op = "Root::remove" =>
       LET r == lastop'.tree
           n == lastop'.k
       IN  IF \E link \in Links : Joins(mm, link, r, n)
           THEN /\ flag'
                /\ \E link \in Links :
                     /\ Joins(mm, link, r, n)
                     /\ mm' = ManyManyLink_remove(mm, link)
           ELSE ~flag' /\ mm' = mm]_vars

(***************************************************************************)
(* Equal keys                                                              *)
(***************************************************************************)
\* the nodes visited by next() from n on (observation helper)
RECURSIVE visitFrom(_, _, _)
visitFrom(h, n, f) ==
  IF n = None \/ f = 0 THEN <<>>
  ELSE <<n>> \o visitFrom(h, next(h, n), f - 1)

traversal(h, r) == visitFrom(h, first(h, r), Fuel)

Place(s, x) == CHOOSE i \in DOMAIN s : s[i] = x

\* C22: in an insert-only sequence nodes with equal keys coexist, and the
\* traversal by next() from first() visits members that compare equal in the
\* order in which they were added, also between and after the rotations of
\* the rebalancing.
C22_EqualKeysKeepOrder ==
  LET t == traversal(Heap, 1)
  IN  \A i \in DOMAIN hist, j \in DOMAIN hist :
        (/\ i < j
         /\ compare(hist[i], hist[j]) = 0
         /\ root[hist[i]] = 1 /\ root[hist[j]] = 1)
        => /\ hist[i] \in Range(t) /\ hist[j] \in Range(t)
           /\ Place(t, hist[i]) < Place(t, hist[j])

\* three equal keys are on the tree and a rotation has moved the base
C22_Witness ==
  /\ pc = "idle"
  /\ Len(hist) >= 3
  /\ \A i \in 1..3 : key[hist[i]] = key[hist[1]] /\ root[hist[i]] = 1
  /\ base[1] # hist[1]

(***************************************************************************)
(* Lock protocol                                                           *)
(***************************************************************************)
Relinking ==
  {"removeRelink", "removeDetach", "removeUnlock",
   "insertLink", "insertInit", "insertUnlock",
   "rotateLeft", "rotateRight", "rotateLeftParent", "rotateRightParent",
   "rotateLeftConnect", "rotateRightConnect", "rotateUnlock"}

Writing(i) == locks[i].how \in {"write", "upgrade"}

\* C21: a search (find, first, last, next, prev) holds only plain read
\* locks; add, remove and the rotations hold a write lock only as the upgrade
\* of an upgradable read lock they already hold on the same container, and
\* only around the relinking of the pointers.
C21_LockProtocol ==
  /\ pc = "search" => \A i \in DOMAIN locks : locks[i].how = "read"
  /\ \A i \in DOMAIN locks :
       Writing(i) =>
         /\ locks[i].how = "upgrade"
         /\ \E j \in 1..(i - 1) :
              locks[j].how = "upread" /\ locks[j].on = locks[i].on
         /\ pc \in Relinking

(***************************************************************************)
(* Rotations                                                               *)
(***************************************************************************)
\* a step of the walk that is a rotation at walk, to the given side
Rotates(side) ==
  /\ pc = "rebalance" /\ walk # None /\ pc' = "rebalance"
  /\ rebalanceChoice(Heap, walk) = side

\* the effect of a rotation at x with pivot p, whose child towards x is b:
\* near/far are the pointer fields on the pivot's side and on the other side
RotationEffect(x, p, b, near, near2, far, far2) ==
  LET g == parent[x]
  IN  /\ near2[x] = b
      /\ far2[p] = x
      /\ parent' = [n \in Nodes |->
                      IF n = x THEN p
                      ELSE IF n = p THEN g
                      ELSE IF n = b THEN x
                      ELSE parent[n]]
      /\ \A n \in Nodes \ {x, g} : near2[n] = near[n]
      /\ \A n \in Nodes \ {p, g} : far2[n] = far[n]
      /\ g # None =>
            /\ base' = base
            /\ IF left[g] = x
               THEN left'[g] = p /\ right'[g] = right[g]
               ELSE right'[g] = p /\ left'[g] = left[g]
      /\ g = None => base' = [base EXCEPT ![root[x]] = p]
      /\ level' = level /\ root' = root

\* C31: a rotation at X with pivot P gives X's pivot-side child P's former
\* opposite-side child, whose parent becomes X; P takes X's former parent,
\* whose slot that held X (or the root's base) now holds P; P's opposite-side
\* child becomes X and X's parent becomes P; every other link, every level
\* and every root field is unchanged.
C31_RotationEffect ==
  [][/\ Rotates("rotateLeft") =>
          RotationEffect(walk, right[walk], left[right[walk]], right, right', left, left')
     /\ Rotates("rotateRight") =>
          RotationEffect(walk, left[walk], right[left[walk]], left, left', right, right')]_vars

\* a rotation has just put its pivot, which had a child towards the rotated
\* node, into the child slot of the rotated node's former parent
C31_Witness ==
  /\ pc = "rebalance" /\ rotPivot # None
  /\ parent[walk] = rotPivot /\ parent[rotPivot] # None
  /\ \/ left[rotPivot] = walk /\ right[walk] # None
     \/ right[rotPivot] = walk /\ left[walk] # None

\* a step of the walk that is a rotation, or a rotation called on its own
Rotation ==
  \/ Rotates("rotateLeft") \/ Rotates("rotateRight")
  \/ pc = "idle" /\ pc' = "rotated"
  \/ pc = "rotated" /\ pc' = "restored"

\* C32: a rotation at a node that has the pivot child keeps the tree's
\* contents and order: the set of members, the in-order sequence and the
\* traversal by next() from first() are the same before and after it.
C32_RotationKeepsOrder ==
  [][Rotation =>
       \A r \in Roots :
         /\ inorder(Heap', r) = inorder(Heap, r)
         /\ traversal(Heap', r) = traversal(Heap, r)
         /\ {n \in Nodes : root'[n] = r} = {n \in Nodes : root[n] = r}]_vars

\* a rotation has just happened in a tree of at least four members in which
\* the pivot kept a subtree on each side
C32_Witness ==
  /\ pc \in {"rebalance", "rotated"} /\ rotPivot # None
  /\ parent[lastop.node] = rotPivot
  /\ left[rotPivot] # None /\ right[rotPivot] # None
  /\ Len(inorder(Heap, root[rotPivot])) >= 4
  /\ traversal(Heap, root[rotPivot]) = inorder(Heap, root[rotPivot])

\* C39: the rotations are inverse to each other: rotateLeft at X and then
\* rotateRight at the promoted P (and rotateRight then rotateLeft) restore
\* every parent, left and right pointer and the root's base.
C39_RotationsInverse ==
  pc = "restored" => Links4(Heap) = hist[1]

\* both rotations have run on a node that had a parent and whose pivot had a
\* child on the node's side
C39_Witness ==
  /\ pc = "restored" /\ lastop.op = "rotateLeft"
  /\ parent[lastop.node] # None
  /\ right[lastop.node] = rotPivot /\ left[rotPivot] # None

\* the same for rotateRight then rotateLeft, at the base of the tree
C39_WitnessRight ==
  /\ pc = "restored" /\ lastop.op = "rotateRight"
  /\ parent[lastop.node] = None
  /\ left[lastop.node] = rotPivot /\ right[rotPivot] # None

C34_LocksReleased ==
  pc = "idle" => locks = <<>>

\* the lock of entry i is a write lock, plain or upgraded, on a container
HoldsWrite(i) == locks[i].how \in {"write", "upgrade"} /\ locks[i].on # None

\* C35: no tree operation requests a read lock or a further non-upgrade
\* write lock on a container while it already holds the write lock on that
\* container (so a single uncontended call never blocks on itself).
C35_NoRequestUnderWrite ==
  \A i, j \in DOMAIN locks :
    i < j /\ HoldsWrite(i) /\ locks[j].on = locks[i].on =>
      locks[j].how \notin {"read", "upread", "write"}

(***************************************************************************)
(* The pivot of the walk's rotations                                       *)
(***************************************************************************)
\* C36: the rebalance walk never rotates without a pivot: rotateRight is
\* invoked only on a node that has a left child and rotateLeft only on a node
\* that has a right child, in every tree reachable by adds and removes.
C36_RotationHasPivot ==
  /\ pc = "rotateRight" => left[walk] # None /\ rotPivot = left[walk]
  /\ pc = "rotateLeft" => right[walk] # None /\ rotPivot = right[walk]

\* a rotation has been invoked in a tree from which a node was removed before
C36_Witness ==
  /\ pc \in {"rotateLeft", "rotateRight"} /\ rotPivot # None
  /\ \E n \in Nodes : n # self /\ root[n] = None /\ level[n] = 1

(***************************************************************************)
(* TreeInRoot::check                                                       *)
(***************************************************************************)
NoRepeat(t) == \A i, j \in DOMAIN t : t[i] = t[j] => i = j

\* C37: with checking compiled in, TreeInRoot::check() on a well-formed
\* unbalanced tree (empty, single node or larger) visits every member
\* exactly once, ends and returns true.
C37_CheckVisitsOnce ==
  /\ pc = "check" => NoRepeat(trail)
  /\ pc = "idle" /\ lastop.op = "check" =>
       flag /\ Range(trail) = members(Heap, lastop.tree)

(***************************************************************************)
(* ManyManyNode::remove(root)                                              *)
(***************************************************************************)
\* C38: ManyManyNode::remove(root) ends for every link configuration: it
\* returns true after removing the link to root when the node is linked to
\* root, at any position of the node's list, and returns false, changing
\* nothing, when the node has no link to root.
C38_NodeRemoveEnds ==
  [][lastop'.op = "Node::remove" =>
       LET r == lastop'.tree
           n == lastop'.k
       IN  /\ pc' # "hang"
           /\ IF \E link \in Links : Joins(mm, link, r, n)
              THEN /\ flag'
                   /\ \E link \in Links :
                        /\ Joins(mm, link, r, n)
                        /\ mm' = ManyManyLink_remove(mm, link)
              ELSE ~flag' /\ mm' = mm]_vars

====
